---- MODULE Spec2Model ----
(***************************************************************************)
(* Wabash River stage tools: the lag estimator, lagged dataset, linear fit *)
(* and regime table of correlation_model/02_correlation_analysis.py, the   *)
(* forecast propagator of generate_hutsonville_forecast.py and the reading *)
(* log of update_river_data.py, the main functions of these scripts, the   *)
(* gauge fetch of fetch_noaa_forecasts.py and the pipeline runner of       *)
(* correlation_model/run_analysis.py, as state machines.                   *)
(*                                                                         *)
(* Each component has its own specification (SpecXc, SpecLg, SpecFc,       *)
(* SpecFit, SpecRg, SpecUd for the functions; SpecRf for the updater and   *)
(* the forecast generator running on one river_data.json, SpecAm for the   *)
(* analysis main, SpecFg and SpecFgFair for the fetch, SpecRn for the      *)
(* runner): Init draws the inputs from a bounded family and the actions    *)
(* are the steps of the code.  The variables of the other components stay  *)
(* at their idle value.                                                    *)
(*                                                                         *)
(* Python's None is the empty tuple and a present value v is <<v>>.        *)
(* A pandas Series is a function from the dates that carry a (non-NaN)     *)
(* value to that value; dates are day numbers 1..NDates.                   *)
(***************************************************************************)
EXTENDS Integers, Sequences, FiniteSets, TLC

VARIABLES
    \* ---- calculate_cross_correlation ----
    upstream,          \* argument: upstream Series
    downstream,        \* argument: downstream Series
    max_lag_days,      \* argument
    xpc,               \* position in the function: "start", "loop", "finish", "done"
    combined,          \* index (dates) of the aligned frame after dropna()
    upstream_norm,     \* normalised upstream samples
    downstream_norm,   \* normalised downstream samples
    lag,               \* loop variable of the for loop
    lags,              \* list built by the loop
    correlations,      \* list built by the loop
    sliced,            \* dates behind the two slices correlated by the last iteration
    xresult,           \* returned tuple, None before the return
    \* ---- create_lagged_dataset ----
    df,                \* argument: the combined table (index, TERI3, RVTI3)
    lag_days,          \* argument
    lpc,               \* position in the function: "start", "built", "done"
    lagged,            \* the frame built at lines 157-160, then filtered
    lresult,           \* returned frame, None before the return
    \* ---- generate_forecast_points ----
    noaa_data,                  \* argument: contents of noaa_forecasts.json
    current_time,               \* argument
    current_hutsonville_stage,  \* argument, in 1/1000 ft
    num_hours,                  \* argument
    fpc,                        \* position: "start", "parse", "loop", "done", "raised"
    hutsonville_peak_time,      \* local, None before line 122
    peak_stage,                 \* local, in 1/1000 ft, None before line 125
    hours,                      \* loop variable of the for loop
    forecasts,                  \* list built by the function
    forecast_stage,             \* history of the local forecast_stage (before rounding)
    fresult,                    \* returned list, None before the return
    fraised,                    \* exception that left the function, None if none
    fprior,                     \* what an earlier call returned, None if there was none
    \* ---- fit_linear_model ----
    fit_X,             \* argument X
    fit_y,             \* argument y
    tpc,               \* position: "start", "done", "raised"
    fit_result,        \* returned tuple, None before the return
    fit_raised,        \* exception that left the function, None if none
    \* ---- analyze_model_performance_by_stage ----
    lagged_df,         \* argument
    rg_model,          \* argument model
    rpc,               \* position: "loop", "done"
    regime_idx,        \* position of the for loop in FLOW_REGIMES
    performance,       \* list built by the function
    perf_df,           \* returned table, None before the return
    \* ---- update_data ----
    existing_data,     \* the reading log: last_updated and readings
    ucalls,            \* calls made so far
    printed,           \* what the calls printed
    \* ---- the river data file and the two scripts that write it ----
    river_file,        \* contents of data/river_data.json
    noaa_file,         \* contents of data/noaa_forecasts.json
    upc,               \* update_river_data.main: position
    ur_new_reading,    \* its new_reading
    ur_existing_data,  \* its existing_data / updated_data
    ur_exit,           \* its exit status, None while it runs
    gpc,               \* generate_hutsonville_forecast.main: position
    gm_noaa_data,      \* its noaa_data
    gm_river_data,     \* its river_data
    gm_exit,           \* its exit status, None while it runs
    \* ---- 02_correlation_analysis.main ----
    apc,               \* position
    am_df,             \* df: the combined table
    am_model,          \* model, None before the fit
    am_perf_df,        \* perf_df, None before the regime analysis
    am_files,          \* names of the files written to OUTPUT_DIR
    am_report,         \* sections written to analysis_report.txt, None before
    am_raised,         \* exception that left main, None if none
    \* ---- fetch_gauge_data ----
    fg_gauge_id,       \* argument gauge_id
    retry_count,       \* argument retry_count of the innermost call
    fgpc,              \* position: "call", "done"
    fg_requests,       \* the requests.get calls made and their outcomes
    fg_result,         \* returned value
    \* ---- run_analysis.main ----
    rnpc,              \* position: "loop", "running", "summary", "exited"
    rn_exists,         \* os.path.exists of each script file
    rn_run,            \* number of the pipeline run
    rn_i,              \* position of the for loop in SCRIPTS
    success_count,
    failed_scripts,
    rn_events,         \* scripts started and ended in this run
    rn_exit,           \* exit status of this run, None while it runs
    rn_exits           \* exit statuses of the runs before

xcVars == <<upstream, downstream, max_lag_days, xpc, combined, upstream_norm,
            downstream_norm, lag, lags, correlations, sliced, xresult>>

lgVars == <<df, lag_days, lpc, lagged, lresult>>

fcVars == <<noaa_data, current_time, current_hutsonville_stage, num_hours, fpc,
            hutsonville_peak_time, peak_stage, hours, forecasts, forecast_stage,
            fresult, fraised, fprior>>

fitVars == <<fit_X, fit_y, tpc, fit_result, fit_raised>>

rgVars == <<lagged_df, rg_model, rpc, regime_idx, performance, perf_df>>

udVars == <<existing_data, ucalls, printed>>

urVars == <<upc, ur_new_reading, ur_existing_data, ur_exit>>

gmVars == <<gpc, gm_noaa_data, gm_river_data, gm_exit>>

rfVars == <<river_file, noaa_file, urVars, gmVars>>

amVars == <<apc, am_df, am_model, am_perf_df, am_files, am_report, am_raised>>

fgVars == <<fg_gauge_id, retry_count, fgpc, fg_requests, fg_result>>

rnVars == <<rnpc, rn_exists, rn_run, rn_i, success_count, failed_scripts,
            rn_events, rn_exit, rn_exits>>

\* the scripts' main functions, and the NOAA fetch
mainVars == <<rfVars, amVars, fgVars, rnVars>>

vars == <<xcVars, lgVars, fcVars, fitVars, rgVars, udVars, mainVars>>

\* what a step of one component leaves alone
xcOther == <<lgVars, fcVars, fitVars, rgVars, udVars, mainVars>>
lgOther == <<xcVars, fcVars, fitVars, rgVars, udVars, mainVars>>
fcOther == <<xcVars, lgVars, fitVars, rgVars, udVars, mainVars>>
fitOther == <<xcVars, lgVars, fcVars, rgVars, udVars, mainVars>>
rgOther == <<xcVars, lgVars, fcVars, fitVars, udVars, mainVars>>
udOther == <<xcVars, lgVars, fcVars, fitVars, rgVars, mainVars>>
rfOther == <<xcVars, lgVars, fcVars, fitVars, rgVars, udVars, amVars, fgVars, rnVars>>
fgOther == <<xcVars, lgVars, fcVars, fitVars, rgVars, udVars, rfVars, amVars, rnVars>>
rnOther == <<xcVars, lgVars, fcVars, fitVars, rgVars, udVars, rfVars, amVars, fgVars>>
\* what the call of generate_forecast_points from main leaves alone
gmCallOther == <<xcVars, lgVars, fitVars, rgVars, udVars, amVars, fgVars, rnVars>>
\* what the analysis run and the two functions it is modelled to call
\* leave alone
amBase == <<fcVars, fitVars, rgVars, udVars, rfVars, fgVars, rnVars>>
amOther == <<xcVars, lgVars, amBase>>

None == <<>>
Some(v) == <<v>>

-----------------------------------------------------------------------------
(* Bounds of the input families.                                           *)

NDates == 103       \* days spanned by the combined table
MaxHead == 3        \* leading upstream values that may be missing
MaxShift == 2       \* largest synthetic shift of the downstream series
MaxLag == 3         \* largest small max_lag_days tried
LgDates == 4        \* days spanned by the table given to create_lagged_dataset
LgMaxLag == 2       \* largest lag_days tried
MaxHours == 27      \* largest num_hours tried
MaxRows == 3        \* most rows handed to fit_linear_model
ExtraRows == 1      \* rows above the regime threshold tried
MaxCalls == 3       \* update_data calls in a run
MaxTime == 3        \* latest reading time
MaxRuns == 2        \* pipeline runs in a row

Days == 1..NDates
DaysSeq == [i \in 1..NDates |-> i]

\* max_lag_days beyond every aligned sample count
BigLag == NDates + 1

-----------------------------------------------------------------------------
(* Arithmetic helpers.                                                     *)

Abs(x) == IF x < 0 THEN -x ELSE x

Sign(x) == IF x < 0 THEN -1 ELSE IF x > 0 THEN 1 ELSE 0

RECURSIVE SumTo(_, _)
SumTo(f, m) == IF m = 0 THEN 0 ELSE f[m] + SumTo(f, m - 1)

\* a/b < c/d for a, c >= 0 and b, d > 0, by continued-fraction comparison
\* (no product of two numerators or denominators is formed).
RECURSIVE FracLess(_, _, _, _)
FracLess(a, b, c, d) ==
    LET qa == a \div b
        qc == c \div d
        ra == a % b
        rc == c % d
    IN  IF qa # qc THEN qa < qc
        ELSE IF rc = 0 THEN FALSE
        ELSE IF ra = 0 THEN TRUE
        ELSE FracLess(d, rc, b, ra)

-----------------------------------------------------------------------------
(* Floating-point correlation values.                                      *)
(* A correlation is NaN or the exact rational sgn * sqrt(num / den); the   *)
(* integer 0 of line 117 is the rational with sgn 0.                       *)

NaN == [nan |-> TRUE, sgn |-> 0, num |-> 0, den |-> 1]
Zero == [nan |-> FALSE, sgn |-> 0, num |-> 0, den |-> 1]

IsOne(c) == ~c.nan /\ c.sgn = 1 /\ c.num = c.den

\* IEEE comparison: every comparison with NaN is false.
FLess(a, b) ==
    /\ ~a.nan
    /\ ~b.nan
    /\ IF a.sgn # b.sgn THEN a.sgn < b.sgn
       ELSE IF a.sgn = 0 THEN FALSE
       ELSE IF a.sgn = 1 THEN FracLess(a.num, a.den, b.num, b.den)
       ELSE FracLess(b.num, b.den, a.num, a.den)

FEq(a, b) == ~a.nan /\ ~b.nan /\ ~FLess(a, b) /\ ~FLess(b, a)

FLeq(a, b) == FLess(a, b) \/ FEq(a, b)

\* np.corrcoef(x, y)[0, 1] of two equally long sample arrays: the Pearson
\* coefficient, NaN when either array has zero variance (constant, of
\* length one, or empty).
Corrcoef(x, y) ==
    LET m == Len(x)
        sx == SumTo(x, m)
        sy == SumTo(y, m)
        sxx == SumTo([i \in 1..m |-> x[i] * x[i]], m)
        syy == SumTo([i \in 1..m |-> y[i] * y[i]], m)
        sxy == SumTo([i \in 1..m |-> x[i] * y[i]], m)
        a == m * sxx - sx * sx
        b == m * syy - sy * sy
        n == m * sxy - sx * sy
    IN  IF a = 0 \/ b = 0 THEN NaN
        ELSE [nan |-> FALSE, sgn |-> Sign(n), num |-> n * n, den |-> a * b]

\* (v - np.mean(v)) / np.std(v).  With std > 0 this is a positive affine
\* map of v, under which np.corrcoef is invariant, so the normalised array
\* is carried by v itself; with std = 0 every entry is NaN.
Normalize(v) ==
    LET m == Len(v)
        s == SumTo(v, m)
        ss == SumTo([i \in 1..m |-> v[i] * v[i]], m)
    IN  [nan |-> (m * ss - s * s = 0), vals |-> v]

\* a[:-k] and a[k:] of a normalised array, k >= 1
DropLast(a, k) == [nan |-> a.nan, vals |-> SubSeq(a.vals, 1, Len(a.vals) - k)]
DropFirst(a, k) == [nan |-> a.nan, vals |-> SubSeq(a.vals, k + 1, Len(a.vals))]

CorrcoefNorm(a, b) == IF a.nan \/ b.nan THEN NaN ELSE Corrcoef(a.vals, b.vals)

\* np.argmax(c) (0-based): the first NaN if there is one, else the first
\* maximum (numpy's loop: take c[i] unless c[i] <= current, stop at a NaN).
RECURSIVE ArgmaxLastFrom(_, _, _)
ArgmaxLastFrom(c, i, best) ==
    IF i > Len(c) \/ c[best].nan THEN best - 1
    ELSE IF ~FLess(c[i], c[best]) THEN ArgmaxLastFrom(c, i + 1, i)
    ELSE ArgmaxLastFrom(c, i + 1, best)

\* faulty variant: the last maximum instead of the first
NpArgmaxLast(c) == ArgmaxLastFrom(c, 2, 1)

RECURSIVE ArgmaxFrom(_, _, _)
ArgmaxFrom(c, i, best) ==
    IF i > Len(c) \/ c[best].nan THEN best - 1
    ELSE IF ~FLeq(c[i], c[best]) THEN ArgmaxFrom(c, i + 1, i)
    ELSE ArgmaxFrom(c, i + 1, best)

NpArgmax(c) == ArgmaxFrom(c, 2, 1)

\* Python's max(c): keep the first item, replace it by a later item only
\* if that item > current.
RECURSIVE PyMaxFrom(_, _, _)
PyMaxFrom(c, i, best) ==
    IF i > Len(c) THEN best
    ELSE IF FLess(best, c[i]) THEN PyMaxFrom(c, i + 1, c[i])
    ELSE PyMaxFrom(c, i + 1, best)

PyMax(c) == PyMaxFrom(c, 2, c[1])

-----------------------------------------------------------------------------
(* Input series.                                                           *)

SigKinds == {"flat", "alt", "tri", "pulse", "tail"}

PulseAt == NDates \div 2
GapAt == (NDates \div 2) + 1

\* a daily value of a synthetic gauge record
Signal(kind, t) ==
    CASE kind = "flat" -> 1
      [] kind = "alt" -> t % 2
      [] kind = "tri" -> t % 3
      [] kind = "pulse" -> IF Abs(t - PulseAt) < 2 THEN 2 - Abs(t - PulseAt) ELSE 0
      [] kind = "tail" -> IF t = NDates THEN 1 ELSE 0

\* upstream record: `head` leading days missing, one day missing mid-record
\* when `gap`
UpSeries(kind, head, gap) ==
    [t \in (Days \ (1..head)) \ (IF gap THEN {GapAt} ELSE {}) |-> Signal(kind, t)]

\* the series s measured `k` days later
Shifted(s, k) == [t \in {d \in Days : d - k \in DOMAIN s} |-> s[t - k]]

FullSeries(kind) == [t \in Days |-> Signal(kind, t)]

XcInputs ==
    {[up |-> UpSeries(k, h, g), down |-> Shifted(UpSeries(k, h, g), s), ml |-> m] :
        k \in SigKinds, h \in 0..MaxHead, g \in BOOLEAN, s \in 0..MaxShift,
        m \in 0..MaxLag}
    \cup
    {[up |-> UpSeries(k, h, g), down |-> FullSeries(d), ml |-> m] :
        k \in SigKinds, h \in 0..MaxHead, g \in BOOLEAN, d \in {"pulse", "tri"},
        m \in 0..MaxLag}
    \cup
    {[up |-> UpSeries(k, 0, FALSE), down |-> FullSeries(d), ml |-> BigLag] :
        k \in {"pulse", "alt"}, d \in {"pulse", "tri"}}

-----------------------------------------------------------------------------
(* calculate_cross_correlation                                             *)

MinPaired == 100

\* pd.DataFrame({'upstream': ..., 'downstream': ...}).dropna(): the dates at
\* which both series carry a value, in index order
Dropna(u, d) == SelectSeq(DaysSeq, LAMBDA t : t \in DOMAIN u /\ t \in DOMAIN d)

\* faulty variant: threshold off by one
InsufficientOffByOne(c) == Len(c) < MinPaired - 1

Insufficient(c) == Len(c) < MinPaired

NoResult == [lags |-> None, correlations |-> None, optimal_lag |-> None,
             max_correlation |-> None]

XcIdle ==
    /\ upstream = <<>>
    /\ downstream = <<>>
    /\ max_lag_days = 0
    /\ xpc = "idle"
    /\ combined = <<>>
    /\ upstream_norm = None
    /\ downstream_norm = None
    /\ lag = 0
    /\ lags = <<>>
    /\ correlations = <<>>
    /\ sliced = None
    /\ xresult = None

XcInit ==
    /\ \E in \in XcInputs :
        /\ upstream = in.up
        /\ downstream = in.down
        /\ max_lag_days = in.ml
    /\ xpc = "start"
    /\ combined = <<>>
    /\ upstream_norm = None
    /\ downstream_norm = None
    /\ lag = 0
    /\ lags = <<>>
    /\ correlations = <<>>
    /\ sliced = None
    /\ xresult = None

\* lines 85-95: align, and give up below 100 paired records
XcInsufficient ==
    /\ xpc = "start"
    /\ Insufficient(Dropna(upstream, downstream))
    /\ combined' = Dropna(upstream, downstream)
    /\ xresult' = Some(NoResult)
    /\ xpc' = "done"
    /\ UNCHANGED <<upstream, downstream, max_lag_days, upstream_norm,
                   downstream_norm, lag, lags, correlations, sliced>>
    /\ UNCHANGED xcOther

\* lines 85-106: align, normalise, start the loop
XcAlign ==
    /\ xpc = "start"
    /\ ~Insufficient(Dropna(upstream, downstream))
    /\ combined' = Dropna(upstream, downstream)
    /\ upstream_norm' =
         Normalize([i \in 1..Len(combined') |-> upstream[combined'[i]]])
    /\ downstream_norm' =
         Normalize([i \in 1..Len(combined') |-> downstream[combined'[i]]])
    /\ lag' = 0
    /\ lags' = <<>>
    /\ correlations' = <<>>
    /\ xpc' = "loop"
    /\ UNCHANGED <<upstream, downstream, max_lag_days, sliced, xresult>>
    /\ UNCHANGED xcOther

\* faulty variant: lag <= len(upstream_norm)
LagFitsInclusive(l, a) == l <= Len(a.vals)

\* line 114
LagFits(l, a) == l < Len(a.vals)

\* lines 109-117: the correlation of one lag
LagCorr(l, un, dn) ==
    IF l = 0 THEN CorrcoefNorm(un, dn)
    ELSE IF LagFits(l, un) THEN CorrcoefNorm(DropLast(un, l), DropFirst(dn, l))
    ELSE Zero

\* the dates whose values the iteration for lag l correlates: <<dates of
\* the upstream slice, dates of the downstream slice>>, <<>> for the
\* constant 0 of line 117
LagSlices(l, c, un) ==
    IF l = 0 THEN <<c, c>>
    ELSE IF LagFits(l, un) THEN <<SubSeq(c, 1, Len(c) - l), SubSeq(c, l + 1, Len(c))>>
    ELSE <<<<>>, <<>>>>

\* lines 108-120: one iteration of the for loop
XcLagStep ==
    /\ xpc = "loop"
    /\ lag <= max_lag_days
    /\ lags' = Append(lags, lag)
    /\ correlations' = Append(correlations, LagCorr(lag, upstream_norm, downstream_norm))
    /\ sliced' = Some([lag |-> lag, dates |-> LagSlices(lag, combined, upstream_norm)])
    /\ lag' = lag + 1
    /\ UNCHANGED <<upstream, downstream, max_lag_days, xpc, combined,
                   upstream_norm, downstream_norm, xresult>>
    /\ UNCHANGED xcOther

OptimalLag(ls, cs) == ls[NpArgmax(cs) + 1]

MaxCorrelation(cs) == PyMax(cs)

\* lines 122-129: pick the optimum and return
XcFinish ==
    /\ xpc = "loop"
    /\ lag > max_lag_days
    /\ xresult' = Some([lags |-> Some(lags),
                        correlations |-> Some(correlations),
                        optimal_lag |-> Some(OptimalLag(lags, correlations)),
                        max_correlation |-> Some(MaxCorrelation(correlations))])
    /\ xpc' = "done"
    /\ UNCHANGED <<upstream, downstream, max_lag_days, combined, upstream_norm,
                   downstream_norm, lag, lags, correlations, sliced>>
    /\ UNCHANGED xcOther

XcNext == XcInsufficient \/ XcAlign \/ XcLagStep \/ XcFinish

-----------------------------------------------------------------------------
(* create_lagged_dataset                                                   *)
(* The table has one row per date of its index, which is sorted but need   *)
(* not hold every day (01_download_data.py outer-joins the gauges' own     *)
(* dates); a column is the function from the dates with a value to it.     *)

\* a reading of the gauge on day t (distinct for every day and gauge)
TeriValue(t) == 10 * t
RvtiValue(t) == 10 * t + 1

Subsets(S) == SUBSET S

LgInputs ==
    {[index |-> SelectSeq([i \in 1..LgDates |-> i], LAMBDA t : t \in ix),
      TERI3 |-> [t \in tp |-> TeriValue(t)],
      RVTI3 |-> [t \in rp |-> RvtiValue(t)],
      lag |-> l] :
        ix \in Subsets(1..LgDates), tp \in Subsets(1..LgDates),
        rp \in Subsets(1..LgDates), l \in 0..LgMaxLag}

LgWellFormed(in) ==
    /\ DOMAIN in.TERI3 \subseteq {in.index[i] : i \in 1..Len(in.index)}
    /\ DOMAIN in.RVTI3 \subseteq {in.index[i] : i \in 1..Len(in.index)}

LgIdle ==
    /\ df = None
    /\ lag_days = 0
    /\ lpc = "idle"
    /\ lagged = None
    /\ lresult = None

LgInit ==
    /\ \E in \in {i \in LgInputs : LgWellFormed(i)} :
        /\ df = [index |-> in.index, TERI3 |-> in.TERI3, RVTI3 |-> in.RVTI3]
        /\ lag_days = in.lag
    /\ lpc = "start"
    /\ lagged = None
    /\ lresult = None

\* cell of a column at row i of the table: None is NaN
Cell(col, index, i) ==
    IF index[i] \in DOMAIN col THEN Some(col[index[i]]) ELSE None

\* Series.shift(k), k >= 0: row i takes the cell of row i - k, NaN for the
\* first k rows
Shift(col, index, k) ==
    [i \in 1..Len(index) |-> IF i - k >= 1 THEN Cell(col, index, i - k) ELSE None]

\* lines 152-160: the two-column frame on the table's index
LgBuild ==
    /\ lpc = "start"
    /\ lagged' = [i \in 1..Len(df.index) |->
                    [date |-> df.index[i],
                     TERI3_lagged |-> Shift(df.TERI3, df.index, lag_days)[i],
                     RVTI3_current |-> Cell(df.RVTI3, df.index, i)]]
    /\ lpc' = "built"
    /\ UNCHANGED <<df, lag_days, lresult>>
    /\ UNCHANGED lgOther

\* DataFrame.dropna(): the rows without a NaN cell
DropnaRows(f) ==
    SelectSeq(f, LAMBDA r : r.TERI3_lagged # None /\ r.RVTI3_current # None)

\* lines 162-167: drop the rows with a NaN and return
LgDropna ==
    /\ lpc = "built"
    /\ lagged' = DropnaRows(lagged)
    /\ lresult' = Some(DropnaRows(lagged))
    /\ lpc' = "done"
    /\ UNCHANGED <<df, lag_days>>
    /\ UNCHANGED lgOther

LgNext == LgBuild \/ LgDropna

-----------------------------------------------------------------------------
(* generate_forecast_points                                                *)
(* Stages are integers in 1/1000 ft (update_river_data.py stores readings  *)
(* rounded to 3 decimals); times are whole hours.  A datetime is its wall  *)
(* clock reading and its UTC offset, None for a naive datetime.            *)

TERI3_TO_HUTSONVILLE_LAG_HOURS == 18
STAGE_SCALING_PCT == 98          \* STAGE_SCALING = 0.98
POSITION_WEIGHT_PCT == 85        \* position_weight = 0.85
STEP_HOURS == 6                  \* range(6, num_hours + 1, 6)

\* round(1e6 * 0.99 ** (h / 6)) for h = 0, 1, ... hours after the peak
\* faulty variant: no recession
RecessionFlat == [h \in 1..160 |-> 1000000]

RecessionMicro ==
    <<1000000, 998326, 996655, 994987, 993322, 991660,
      990000, 988343, 986689, 985038, 983389, 981743,
      980100, 978460, 976822, 975187, 973555, 971926,
      970299, 968675, 967054, 965435, 963820, 962206,
      960596, 958988, 957383, 955781, 954181, 952584,
      950990, 949398, 947809, 946223, 944640, 943059,
      941480, 939904, 938331, 936761, 935193, 933628,
      932065, 930505, 928948, 927393, 925841, 924292,
      922745, 921200, 919659, 918119, 916583, 915049,
      913517, 911988, 910462, 908938, 907417, 905898,
      904382, 902868, 901357, 899849, 898343, 896839,
      895338, 893840, 892344, 890850, 889359, 887871,
      886385, 884901, 883420, 881942, 880466, 878992,
      877521, 876052, 874586, 873122, 871661, 870202,
      868746, 867292, 865840, 864391, 862944, 861500,
      860058, 858619, 857182, 855747, 854315, 852885,
      851458, 850033, 848610, 847190, 845772, 844356,
      842943, 841532, 840124, 838718, 837314, 835913,
      834514, 833117, 831723, 830331, 828941, 827554,
      826169, 824786, 823405, 822027, 820652, 819278,
      817907, 816538, 815171, 813807, 812445, 811085,
      809728, 808373, 807020, 805669, 804321, 802974,
      801631, 800289, 798950, 797612, 796277, 794945,
      793614, 792286, 790960, 789636, 788315, 786995,
      785678, 784363, 783050, 781740, 780432, 779125,
      777821, 776520, 775220, 773922, 772627, 771334,
      770043, 768754, 767468, 766183>>

\* the integers nearest to n / d (d > 0): both neighbours at an exact tie,
\* where the binary value of the float decides which way round() goes
RoundSet(n, d) ==
    LET q == n \div d
        r == n - q * d
    IN  IF 2 * r < d THEN {q}
        ELSE IF 2 * r > d THEN {q + 1}
        ELSE {q, q + 1}

\* the same when n is only known to within err: both neighbours whenever the
\* true quotient may lie on either side of the half
RoundSetWithin(n, d, err) ==
    LET q == n \div d
        r == n - q * d
    IN  IF 2 * r + 2 * err < d THEN {q}
        ELSE IF 2 * r - 2 * err > d THEN {q + 1}
        ELSE {q, q + 1}

\* round(x, 2) of the stage x = n / d (1/1000 ft): multiples of 0.01 ft
Round2(n, d) == {10 * k : k \in RoundSet(n, 10 * d)}
Round2Within(n, d, err) == {10 * k : k \in RoundSetWithin(n, 10 * d, err)}

\* faulty variant: the scaling factor left out
EstimateUnscaled(teri3_stage, rvti3_stage) ==
    Round2((100 - POSITION_WEIGHT_PCT) * teri3_stage
             + POSITION_WEIGHT_PCT * rvti3_stage, 100)

\* lines 66-71: estimate_hutsonville_stage with the default position_weight
EstimateHutsonvilleStage(teri3_stage, rvti3_stage) ==
    Round2(((100 - POSITION_WEIGHT_PCT) * teri3_stage
             + POSITION_WEIGHT_PCT * rvti3_stage) * STAGE_SCALING_PCT, 10000)

\* ---- datetimes ----

Aware(dt) == dt.tz # None

\* datetime + timedelta(hours = h)
AddHours(dt, h) == [wall |-> dt.wall + h, tz |-> dt.tz]

\* datetime.replace(tzinfo = None)
Naive(dt) == [wall |-> dt.wall, tz |-> None]

\* comparing or subtracting an aware and a naive datetime raises TypeError
Mixed(a, b) == Aware(a) # Aware(b)

\* a - b in hours, for two naive or two aware datetimes
HoursBetween(a, b) ==
    IF Aware(a) THEN (a.wall - a.tz[1]) - (b.wall - b.tz[1]) ELSE a.wall - b.wall

\* datetime.isoformat() and strftime('%Y-%m-%d %H:%M:%S')
IsoFormat(dt) == [iso |-> dt.wall, offset |-> dt.tz]
DateDisplay(dt) == [ymdhms |-> dt.wall]

\* a timestamp string of noaa_forecasts.json: not ISO-8601 at all, or a wall
\* clock reading followed by "Z", by "-05:00" or by nothing
GoodTimestamp(w, suffix) == [kind |-> "iso", wall |-> w, suffix |-> suffix]
Garbage == [kind |-> "garbage", wall |-> 0, suffix |-> ""]

\* datetime.fromisoformat(s.replace('Z', '+00:00')) of Some(string) or None:
\* the datetime, or the exception raised
ParseTimestamp(ts) ==
    IF ts = None THEN [ok |-> FALSE, error |-> "AttributeError"]
    ELSE IF ts[1].kind # "iso" THEN [ok |-> FALSE, error |-> "ValueError"]
    ELSE [ok |-> TRUE,
          value |-> [wall |-> ts[1].wall,
                     tz |-> CASE ts[1].suffix = "Z" -> Some(0)
                              [] ts[1].suffix = "-05:00" -> Some(0 - 5)
                              [] OTHER -> None]]

\* ---- noaa_data ----
\* noaa_data['gauges'] maps a gauge id to None (fetch_all_gauges could not
\* fetch or parse it) or to Some(entry); a gauge that was never written is
\* not in its domain.  An entry carries the three values read here; None is
\* a value that is null or whose key (or block) is absent.

Entry(obs, fcst, ts) == [observed_stage |-> obs, forecast_stage |-> fcst,
                         forecast_timestamp |-> ts]

\* gauges.get(id, {}): None stands for both null and the default {}
GaugeGet(gauges, id) == IF id \in DOMAIN gauges THEN gauges[id] ELSE None

\* `not teri3 or not rvti3`
GaugeMissing(teri3, rvti3) == teri3 = None \/ rvti3 = None

\* truth value of a stage: None and 0 are false
Truthy(v) == v # None /\ v[1] # 0

\* faulty variant: the forecast stages are not checked
StagesCompleteObservedOnly(tc, rc, tf, rf) == Truthy(tc) /\ Truthy(rc)

\* all([teri3_current, rvti3_current, teri3_forecast, rvti3_forecast])
StagesComplete(tc, rc, tf, rf) ==
    Truthy(tc) /\ Truthy(rc) /\ Truthy(tf) /\ Truthy(rf)

teri3 == GaugeGet(noaa_data.gauges, "TERI3")
rvti3 == GaugeGet(noaa_data.gauges, "RVTI3")
teri3_current == teri3[1].observed_stage
rvti3_current == rvti3[1].observed_stage
teri3_forecast == teri3[1].forecast_stage
rvti3_forecast == rvti3[1].forecast_stage
teri3_forecast_time_str == teri3[1].forecast_timestamp
rvti3_forecast_time_str == rvti3[1].forecast_timestamp

\* ---- inputs ----

GaugeIds == {"TERI3", "RVTI3"}

GoodZ == Some(GoodTimestamp(100, "Z"))

\* gauge values of every shape: absent, null, and entries with each value
\* missing, zero or present
ShapeEntries ==
    {Entry(o, f, t) :
        o \in {None, Some(0), Some(11000)},
        f \in {None, Some(12000)},
        t \in {None, Some(Garbage), GoodZ}}

ShapeGauges ==
    {g \in [GaugeIds -> {None} \cup {Some(x) : x \in ShapeEntries}] : TRUE}
    \cup {[id \in {"TERI3"} |-> Some(Entry(Some(11000), Some(12000), GoodZ))],
          [id \in {"RVTI3"} |-> Some(Entry(Some(11000), Some(12000), GoodZ))]}

TeriOffsets == {0 - 30, 0 - 18, 0 - 8, 0, 3, 24}
Suffixes == {"Z", "-05:00", ""}
CurrentStages == {10000, 12044, 12050, 13000}
ForecastStages == {<<14000, 12000>>, <<10000, 10210>>, <<400, 300>>, <<0 - 1000, 0 - 500>>}
HoursSet == {5, 12, MaxHours}

\* complete gauges with varying numbers and times
NumericGauges ==
    {[id \in GaugeIds |->
        IF id = "TERI3"
        THEN Some(Entry(Some(11000), Some(fs[1]), Some(GoodTimestamp(100 + off, sfx))))
        ELSE Some(Entry(Some(11500), Some(fs[2]), GoodZ))] :
        fs \in ForecastStages, off \in TeriOffsets, sfx \in Suffixes}

FcInputs ==
    {[noaa |-> [gauges |-> g], time |-> [wall |-> 100, tz |-> Some(0)],
      stage |-> 10000, hrs |-> 12] : g \in ShapeGauges}
    \cup
    {[noaa |-> [gauges |-> g], time |-> [wall |-> 100, tz |-> z],
      stage |-> c, hrs |-> h] :
        g \in NumericGauges, z \in {Some(0), None}, c \in CurrentStages,
        h \in HoursSet}

FcIdle ==
    /\ noaa_data = None
    /\ current_time = None
    /\ current_hutsonville_stage = 0
    /\ num_hours = 0
    /\ fpc = "idle"
    /\ hutsonville_peak_time = None
    /\ peak_stage = None
    /\ hours = 0
    /\ forecasts = <<>>
    /\ forecast_stage = <<>>
    /\ fresult = None
    /\ fraised = None
    /\ fprior = None

FcInit ==
    /\ \E in \in FcInputs :
        /\ noaa_data = in.noaa
        /\ current_time = in.time
        /\ current_hutsonville_stage = in.stage
        /\ num_hours = in.hrs
    /\ fpc = "start"
    /\ hutsonville_peak_time = None
    /\ peak_stage = None
    /\ hours = 0
    /\ forecasts = <<>>
    /\ forecast_stage = <<>>
    /\ fresult = None
    /\ fraised = None
    /\ fprior = None

FcFrame ==
    UNCHANGED <<noaa_data, current_time, current_hutsonville_stage, num_hours, fprior>>

\* lines 89-98: a gauge is absent or null
FcGaugeMissing ==
    /\ fpc = "start"
    /\ GaugeMissing(teri3, rvti3)
    /\ fresult' = Some(<<>>)
    /\ fpc' = "done"
    /\ FcFrame
    /\ UNCHANGED <<hutsonville_peak_time, peak_stage, hours, forecasts,
                   forecast_stage, fraised>>
    /\ UNCHANGED fcOther

\* lines 100-114: a stage is missing
FcStageMissing ==
    /\ fpc = "start"
    /\ ~GaugeMissing(teri3, rvti3)
    /\ ~StagesComplete(teri3_current, rvti3_current, teri3_forecast, rvti3_forecast)
    /\ fresult' = Some(<<>>)
    /\ fpc' = "done"
    /\ FcFrame
    /\ UNCHANGED <<hutsonville_peak_time, peak_stage, hours, forecasts,
                   forecast_stage, fraised>>
    /\ UNCHANGED fcOther

\* lines 100-112: both gauges and all four stages are there
FcStagesChecked ==
    /\ fpc = "start"
    /\ ~GaugeMissing(teri3, rvti3)
    /\ StagesComplete(teri3_current, rvti3_current, teri3_forecast, rvti3_forecast)
    /\ fpc' = "parse"
    /\ FcFrame
    /\ UNCHANGED <<hutsonville_peak_time, peak_stage, hours, forecasts,
                   forecast_stage, fresult, fraised>>
    /\ UNCHANGED fcOther

\* lines 116-118: a timestamp is None or is not ISO-8601: the exception
\* leaves the function
FcParseFails ==
    /\ fpc = "parse"
    /\ LET t == ParseTimestamp(teri3_forecast_time_str)
           r == ParseTimestamp(rvti3_forecast_time_str)
       IN  /\ ~t.ok \/ ~r.ok
           /\ fraised' = Some(IF ~t.ok THEN t.error ELSE r.error)
    /\ fpc' = "raised"
    /\ FcFrame
    /\ UNCHANGED <<hutsonville_peak_time, peak_stage, hours, forecasts,
                   forecast_stage, fresult>>
    /\ UNCHANGED fcOther

\* faulty variant: the anchor rounded like the steps
AnchorPointRounded(ct, stage) ==
    [timestamp |-> IsoFormat(Naive(ct)),
     riverstage |-> CHOOSE r \in Round2(stage, 1) : TRUE,
     date_display |-> DateDisplay(Naive(ct)),
     is_forecast |-> TRUE]

\* lines 131-137: the point at the current time
AnchorPoint(ct, stage) ==
    [timestamp |-> IsoFormat(Naive(ct)),
     riverstage |-> stage,
     date_display |-> DateDisplay(Naive(ct)),
     is_forecast |-> TRUE]

\* faulty variant: the peak time taken from the downstream forecast
PeakTimeFromDownstream(teri3_forecast_time, rvti3_forecast_time) ==
    AddHours(rvti3_forecast_time, 0 - STEP_HOURS)

\* line 122: rvti3_forecast_time is parsed on line 118 and not used
PeakTime(teri3_forecast_time, rvti3_forecast_time) ==
    AddHours(teri3_forecast_time, TERI3_TO_HUTSONVILLE_LAG_HOURS)

\* lines 116-137: peak time, peak stage and the anchor point.  Arithmetic
\* on a stage that is None raises TypeError (line 112 keeps None out).
FcBegin ==
    /\ fpc = "parse"
    /\ ParseTimestamp(teri3_forecast_time_str).ok
    /\ ParseTimestamp(rvti3_forecast_time_str).ok
    /\ IF teri3_forecast = None \/ rvti3_forecast = None
       THEN /\ fraised' = Some("TypeError")
            /\ fpc' = "raised"
            /\ UNCHANGED <<hutsonville_peak_time, peak_stage, hours, forecasts>>
       ELSE /\ hutsonville_peak_time' =
                 Some(PeakTime(ParseTimestamp(teri3_forecast_time_str).value,
                               ParseTimestamp(rvti3_forecast_time_str).value))
            /\ \E p \in EstimateHutsonvilleStage(teri3_forecast[1], rvti3_forecast[1]) :
                 peak_stage' = Some(p)
            /\ forecasts' = <<AnchorPoint(current_time, current_hutsonville_stage)>>
            /\ hours' = STEP_HOURS
            /\ fpc' = "loop"
            /\ UNCHANGED fraised
    /\ FcFrame
    /\ UNCHANGED <<forecast_stage, fresult>>
    /\ UNCHANGED fcOther

\* faulty variant: the remaining instead of the elapsed fraction
ProgressBackwards(time_to_peak, time_elapsed) ==
    IF time_to_peak > 0
    THEN IF time_elapsed >= time_to_peak
         THEN [num |-> 1, den |-> 1]
         ELSE [num |-> time_to_peak - time_elapsed, den |-> time_to_peak]
    ELSE [num |-> 1, den |-> 1]

\* lines 146-148: progress as the fraction num / den
Progress(time_to_peak, time_elapsed) ==
    IF time_to_peak > 0
    THEN IF time_elapsed >= time_to_peak
         THEN [num |-> 1, den |-> 1]
         ELSE [num |-> time_elapsed, den |-> time_to_peak]
    ELSE [num |-> 1, den |-> 1]

\* faulty variant: a step at the peak time itself is still interpolated
BeforePeakOrAt(forecast_time, peak_time) ==
    HoursBetween(forecast_time, peak_time) <= 0

\* line 144: forecast_time < hutsonville_peak_time
BeforePeak(forecast_time, peak_time) ==
    HoursBetween(forecast_time, peak_time) < 0

\* lines 144-157: forecast_stage for the step at `h` hours, as the fraction
\* num / den of 1/1000 ft, with the branch taken; err bounds the distance of
\* num from its exact value (the table entries are rounded)
ForecastStage(h, ct, peak_time, cur, peak) ==
    LET forecast_time == AddHours(ct, h)
    IN  IF BeforePeak(forecast_time, peak_time)
        THEN LET pr == Progress(HoursBetween(peak_time, ct),
                                HoursBetween(forecast_time, ct))
             IN  [branch |-> "rising", hours |-> h,
                  num |-> cur * pr.den + (peak - cur) * pr.num, den |-> pr.den,
                  err |-> 0]
        ELSE LET hours_after_peak == HoursBetween(forecast_time, peak_time)
             IN  [branch |-> "recession", hours |-> h,
                  num |-> (peak \div 10) * RecessionMicro[hours_after_peak + 1],
                  den |-> 100000,
                  err |-> (Abs(peak \div 10) + 1) \div 2]

\* lines 160-167: the forecast point of a step
StepPoint(ft, stage) ==
    [timestamp |-> IsoFormat(Naive(ft)),
     riverstage |-> stage,
     date_display |-> DateDisplay(Naive(ft)),
     is_forecast |-> TRUE]

\* faulty variant: the horizon itself left out
InRangeExclusive(h, n) == h < n

\* line 140: h is produced by range(6, n + 1, 6)
InRange(h, n) == h <= n

\* line 144 with an aware and a naive datetime: TypeError leaves the function
FcCompareFails ==
    /\ fpc = "loop"
    /\ InRange(hours, num_hours)
    /\ Mixed(AddHours(current_time, hours), hutsonville_peak_time[1])
    /\ fraised' = Some("TypeError")
    /\ fpc' = "raised"
    /\ FcFrame
    /\ UNCHANGED <<hutsonville_peak_time, peak_stage, hours, forecasts,
                   forecast_stage, fresult>>
    /\ UNCHANGED fcOther

\* lines 140-167: one iteration of the for loop
FcStep ==
    /\ fpc = "loop"
    /\ InRange(hours, num_hours)
    /\ ~Mixed(AddHours(current_time, hours), hutsonville_peak_time[1])
    /\ LET fs == ForecastStage(hours, current_time, hutsonville_peak_time[1],
                               current_hutsonville_stage, peak_stage[1])
       IN  /\ forecast_stage' = Append(forecast_stage, fs)
           /\ \E r \in Round2Within(fs.num, fs.den, fs.err) :
                forecasts' = Append(forecasts,
                                    StepPoint(AddHours(current_time, hours), r))
    /\ hours' = hours + STEP_HOURS
    /\ FcFrame
    /\ UNCHANGED <<fpc, hutsonville_peak_time, peak_stage, fresult, fraised>>
    /\ UNCHANGED fcOther

\* line 169
FcReturn ==
    /\ fpc = "loop"
    /\ ~InRange(hours, num_hours)
    /\ fresult' = Some(forecasts)
    /\ fpc' = "done"
    /\ FcFrame
    /\ UNCHANGED <<hutsonville_peak_time, peak_stage, hours, forecasts,
                   forecast_stage, fraised>>
    /\ UNCHANGED fcOther

\* another parsable RVTI3 forecast timestamp
RvtiTimestamps ==
    {Some(GoodTimestamp(130, "Z")), Some(GoodTimestamp(70, "-05:00")),
     Some(GoodTimestamp(100, ""))}

\* main, line 214, run once more on a snapshot that differs from the one
\* before in the RVTI3 forecast timestamp only
FcCallAgain ==
    /\ fpc = "done"
    /\ fresult # Some(<<>>)
    /\ fprior = None
    /\ \E ts \in RvtiTimestamps :
         /\ ts # rvti3_forecast_time_str
         /\ noaa_data' = [gauges |-> [noaa_data.gauges EXCEPT
                 !["RVTI3"] = Some(Entry(rvti3_current, rvti3_forecast, ts))]]
    /\ fprior' = Some([result |-> fresult[1], forecast_stage |-> forecast_stage,
                       peak_stage |-> peak_stage])
    /\ fpc' = "start"
    /\ hutsonville_peak_time' = None
    /\ peak_stage' = None
    /\ hours' = 0
    /\ forecasts' = <<>>
    /\ forecast_stage' = <<>>
    /\ fresult' = None
    /\ fraised' = None
    /\ UNCHANGED <<current_time, current_hutsonville_stage, num_hours>>
    /\ UNCHANGED fcOther

FcNext ==
    \/ FcCallAgain
    \/ FcGaugeMissing
    \/ FcStageMissing
    \/ FcStagesChecked
    \/ FcParseFails
    \/ FcBegin
    \/ FcCompareFails
    \/ FcStep
    \/ FcReturn

-----------------------------------------------------------------------------
(* fit_linear_model                                                        *)
(* Numbers are exact fractions.  A fitted model keeps its intercept and    *)
(* its slope over one denominator: intercept_ = intercept / den and        *)
(* coef_[0] = coef / den.                                                  *)

FitValuesX == {0, 1, 2}
FitValuesY == {0, 1, 3}

\* the (X, y) columns of a lagged dataset of at most MaxRows rows
FitInputs ==
    UNION {[1..n -> FitValuesX \X FitValuesY] : n \in 0..MaxRows}

\* sum of the products a[i] * b[i]
Dot(a, b) == SumTo([i \in 1..Len(a) |-> a[i] * b[i]], Len(a))

Ones(n) == [i \in 1..n |-> 1]

\* LinearRegression().fit(X, y) for one or more samples: ordinary least
\* squares; when X does not vary (one sample, or equal values) the
\* minimum-norm solution has slope 0 and the mean of y as intercept
LinearRegressionFit(X, y) ==
    LET n == Len(X)
        sx == Dot(X, Ones(n))
        sy == Dot(y, Ones(n))
        D == n * Dot(X, X) - sx * sx
        A == n * Dot(X, y) - sx * sy
    IN  IF D = 0
        THEN [intercept |-> sy, coef |-> 0, den |-> n]
        ELSE [intercept |-> sy * D - A * sx, coef |-> n * A, den |-> n * D]

\* model.predict(X): numerators over model.den
Predict(model, X) == [i \in 1..Len(X) |-> model.intercept + model.coef * X[i]]

\* y - predictions: numerators over model.den
Residuals(model, X, y) ==
    [i \in 1..Len(X) |-> y[i] * model.den - Predict(model, X)[i]]

\* sum of the squared errors, times model.den squared
SquaredErrors(model, X, y) ==
    Dot(Residuals(model, X, y), Residuals(model, X, y))

\* r2_score(y, predictions): undefined (nan) for fewer than two samples;
\* when y does not vary, 1.0 for a perfect prediction and 0.0 otherwise
R2Score(model, X, y) ==
    LET n == Len(y)
        S == SquaredErrors(model, X, y)
        T == n * Dot(y, y) - Dot(y, Ones(n)) * Dot(y, Ones(n))
    IN  IF n < 2 THEN [nan |-> TRUE, num |-> 0, den |-> 1]
        ELSE IF T = 0 THEN [nan |-> FALSE, num |-> IF S = 0 THEN 1 ELSE 0, den |-> 1]
        ELSE [nan |-> FALSE, num |-> T * model.den * model.den - S * n,
              den |-> T * model.den * model.den]

\* faulty variant: the squared errors averaged over n - 1
RmseUnbiased(model, X, y) ==
    [squared |-> [num |-> SquaredErrors(model, X, y),
                  den |-> (Len(y) - 1) * model.den * model.den]]

\* np.sqrt(mean_squared_error(y, predictions)), kept as its square
Rmse(model, X, y) ==
    [squared |-> [num |-> SquaredErrors(model, X, y),
                  den |-> Len(y) * model.den * model.den]]

FitIdle ==
    /\ fit_X = <<>>
    /\ fit_y = <<>>
    /\ tpc = "idle"
    /\ fit_result = None
    /\ fit_raised = None

FitInit ==
    /\ \E rows \in FitInputs :
         /\ fit_X = [i \in 1..Len(rows) |-> rows[i][1]]
         /\ fit_y = [i \in 1..Len(rows) |-> rows[i][2]]
    /\ tpc = "start"
    /\ fit_result = None
    /\ fit_raised = None

\* lines 188-193 with no sample: the fit refuses an array of 0 samples
FitRaises ==
    /\ tpc = "start"
    /\ Len(fit_X) = 0
    /\ fit_raised' = Some("ValueError")
    /\ tpc' = "raised"
    /\ UNCHANGED <<fit_X, fit_y, fit_result>>
    /\ UNCHANGED fitOther

\* lines 188-209 with one sample or more
FitReturns ==
    /\ tpc = "start"
    /\ Len(fit_X) >= 1
    /\ LET model == LinearRegressionFit(fit_X, fit_y)
       IN  fit_result' = Some([model |-> model,
                               predictions |-> Predict(model, fit_X),
                               r2 |-> R2Score(model, fit_X, fit_y),
                               rmse |-> Rmse(model, fit_X, fit_y),
                               residuals |-> Residuals(model, fit_X, fit_y)])
    /\ tpc' = "done"
    /\ UNCHANGED <<fit_X, fit_y, fit_raised>>
    /\ UNCHANGED fitOther

FitNext ==
    \/ FitRaises
    \/ FitReturns

-----------------------------------------------------------------------------
(* analyze_model_performance_by_stage                                      *)
(* Discharges are whole numbers of 1000 cfs, so the regime bounds 5000,    *)
(* 20000, 50000 and 200000 are 5, 20, 50 and 200.  A row of the lagged     *)
(* dataset is [TERI3_lagged, RVTI3_current].                               *)

\* FLOW_REGIMES, in the order of the dict
FLOW_REGIMES ==
    << [regime |-> "low_flow", min_stage |-> 0, max_stage |-> 5],
       [regime |-> "normal_flow", min_stage |-> 5, max_stage |-> 20],
       [regime |-> "high_flow", min_stage |-> 20, max_stage |-> 50],
       [regime |-> "flood_flow", min_stage |-> 50, max_stage |-> 200] >>

MIN_REGIME_ROWS == 10

\* faulty variant: ten rows are too few as well
TooFewInclusive(n) == n <= MIN_REGIME_ROWS

\* line 492: len(regime_data) < 10
TooFew(n) == n < MIN_REGIME_ROWS

\* faulty variant: the upper bound belongs to the regime
InRegimeClosed(row, r) ==
    row.RVTI3_current >= r.min_stage /\ row.RVTI3_current <= r.max_stage

\* lines 488-489: the mask of one row
InRegime(row, r) ==
    row.RVTI3_current >= r.min_stage /\ row.RVTI3_current < r.max_stage

\* line 490: lagged_df[mask]
RegimeData(frame, r) == SelectSeq(frame, LAMBDA row : InRegime(row, r))

TeriColumn(rows) == [i \in 1..Len(rows) |-> rows[i].TERI3_lagged]
RvtiColumn(rows) == [i \in 1..Len(rows) |-> rows[i].RVTI3_current]

\* np.mean(np.abs(y - predictions))
Mae(model, X, y) ==
    [num |-> SumTo([i \in 1..Len(X) |-> Abs(Residuals(model, X, y)[i])], Len(X)),
     den |-> Len(X) * model.den]

\* lines 495-510: the table row of a regime
PerformanceRow(r, regime_data, model) ==
    LET X == TeriColumn(regime_data)
        y == RvtiColumn(regime_data)
    IN  [regime |-> r.regime,
         stage_range |-> <<r.min_stage, r.max_stage>>,
         n_samples |-> Len(regime_data),
         r2 |-> R2Score(model, X, y),
         rmse |-> Rmse(model, X, y),
         mae |-> Mae(model, X, y)]

\* ---- inputs ----

\* rows per regime: none, or about the threshold
RegimeCounts == {0} \cup ((MIN_REGIME_ROWS - 1)..(MIN_REGIME_ROWS + ExtraRows))

\* the i-th row put into regime r: the lower bound, the largest value below
\* the upper bound, then values just above the lower bound; the predictor
\* is the response plus or minus one
RegimeRow(r, i) ==
    LET resp == IF i = 1 THEN r.min_stage
                ELSE IF i = 2 THEN r.max_stage - 1
                ELSE r.min_stage + (i % 3)
    IN  [TERI3_lagged |-> resp + (i % 3) - 1, RVTI3_current |-> resp]

RegimeRows(r, c) == [i \in 1..c |-> RegimeRow(r, i)]

\* rows outside every regime: below 0 and at the last upper bound
OutsideRows ==
    << [TERI3_lagged |-> 0, RVTI3_current |-> 0 - 1],
       [TERI3_lagged |-> FLOW_REGIMES[4].max_stage, RVTI3_current |-> FLOW_REGIMES[4].max_stage] >>

LaggedInputs ==
    {RegimeRows(FLOW_REGIMES[1], c[1]) \o RegimeRows(FLOW_REGIMES[2], c[2])
       \o RegimeRows(FLOW_REGIMES[3], c[3]) \o RegimeRows(FLOW_REGIMES[4], c[4])
       \o (IF out THEN OutsideRows ELSE <<>>) :
        c \in [1..4 -> RegimeCounts], out \in BOOLEAN}

\* fitted models handed in: intercept and slope over the denominator 1
ModelInputs ==
    {[intercept |-> 0, coef |-> 1, den |-> 1],
     [intercept |-> 1, coef |-> 2, den |-> 1]}

RgIdle ==
    /\ lagged_df = <<>>
    /\ rg_model = None
    /\ rpc = "idle"
    /\ regime_idx = 0
    /\ performance = <<>>
    /\ perf_df = None

RgInit ==
    /\ lagged_df \in LaggedInputs
    /\ \E m \in ModelInputs : rg_model = Some(m)
    /\ rpc = "loop"
    /\ regime_idx = 1
    /\ performance = <<>>
    /\ perf_df = None

\* lines 487-493: a regime with too few rows is passed over
RgSkipRegime ==
    /\ rpc = "loop"
    /\ regime_idx <= Len(FLOW_REGIMES)
    /\ TooFew(Len(RegimeData(lagged_df, FLOW_REGIMES[regime_idx])))
    /\ regime_idx' = regime_idx + 1
    /\ UNCHANGED <<lagged_df, rg_model, rpc, performance, perf_df>>
    /\ UNCHANGED rgOther

\* lines 487-510: a regime with enough rows gets its table row
RgReportRegime ==
    /\ rpc = "loop"
    /\ regime_idx <= Len(FLOW_REGIMES)
    /\ LET r == FLOW_REGIMES[regime_idx]
           regime_data == RegimeData(lagged_df, r)
       IN  /\ ~TooFew(Len(regime_data))
           /\ performance' = Append(performance,
                                    PerformanceRow(r, regime_data, rg_model[1]))
    /\ regime_idx' = regime_idx + 1
    /\ UNCHANGED <<lagged_df, rg_model, rpc, perf_df>>
    /\ UNCHANGED rgOther

\* lines 512-515
RgReturn ==
    /\ rpc = "loop"
    /\ regime_idx > Len(FLOW_REGIMES)
    /\ perf_df' = Some(performance)
    /\ rpc' = "done"
    /\ UNCHANGED <<lagged_df, rg_model, regime_idx, performance>>
    /\ UNCHANGED rgOther

RgNext ==
    \/ RgSkipRegime
    \/ RgReportRegime
    \/ RgReturn

-----------------------------------------------------------------------------
(* update_data                                                             *)
(* A reading is what read_latest_river_stage returns: the timestamp is the *)
(* isoformat() string of the parsed iso_time (wall clock reading and UTC   *)
(* offset), the stage is in 1/1000 ft.                                     *)

ReadingStages == {10000, 10500}

\* read_latest_river_stage results: None, or a reading
Reading(w, off, stage) ==
    [timestamp |-> IsoFormat([wall |-> w, tz |-> Some(off)]),
     riverstage |-> stage,
     date_display |-> DateDisplay([wall |-> w, tz |-> Some(off)])]

NewReadings ==
    {None} \cup
    {Some(Reading(w, off, s)) : w \in 1..MaxTime, off \in {0, 1}, s \in ReadingStages}

\* the instant a timestamp string denotes, in hours UTC
Instant(ts) == ts.iso - ts.offset[1]

\* load_existing_data when the file does not exist yet (lines 64-76)
EmptyData == [last_updated |-> None, readings |-> <<>>]

UdIdle ==
    /\ existing_data = None
    /\ ucalls = 0
    /\ printed = <<>>

UdInit ==
    /\ existing_data = Some(EmptyData)
    /\ ucalls = 0
    /\ printed = <<>>

\* line 87
ExistingTimestamps(data) ==
    [i \in 1..Len(data.readings) |-> data.readings[i].timestamp]

\* faulty variant: a reading counts as known only if all of it is in the log
AlreadyExistsWholeReading(data, new_reading) ==
    \E i \in 1..Len(data.readings) : data.readings[i] = new_reading

\* line 89: new_reading['timestamp'] in existing_timestamps
AlreadyExists(data, new_reading) ==
    \E i \in 1..Len(data.readings) :
        ExistingTimestamps(data)[i] = new_reading.timestamp

\* faulty variant: the new reading is put at the head of the log
WithReadingFirst(data, new_reading, now) ==
    [data EXCEPT !.last_updated = Some(now),
                 !.readings = <<new_reading>> \o data.readings]

\* lines 90-91: existing_data['readings'].append(new_reading) and
\* existing_data['last_updated'] = datetime.now().isoformat()
WithReading(data, new_reading, now) ==
    [data EXCEPT !.last_updated = Some(now),
                 !.readings = Append(data.readings, new_reading)]

\* lines 83-84: no reading
UpdateDataNoReading ==
    /\ existing_data # None
    /\ ucalls < MaxCalls
    /\ \E new_reading \in NewReadings : new_reading = None
    /\ ucalls' = ucalls + 1
    /\ UNCHANGED <<existing_data, printed>>
    /\ UNCHANGED udOther

\* lines 86-92 and 96: a reading with a new timestamp is appended;
\* datetime.now() is the number of the call
UpdateDataAppend ==
    /\ existing_data # None
    /\ ucalls < MaxCalls
    /\ \E new_reading \in NewReadings :
         /\ new_reading # None
         /\ ~AlreadyExists(existing_data[1], new_reading[1])
         /\ existing_data' =
              Some(WithReading(existing_data[1], new_reading[1], ucalls + 1))
         /\ printed' = Append(printed, <<"Added new reading", new_reading[1].date_display>>)
    /\ ucalls' = ucalls + 1
    /\ UNCHANGED udOther

\* lines 86-89 and 93-96: a reading with a known timestamp is skipped
UpdateDataSkip ==
    /\ existing_data # None
    /\ ucalls < MaxCalls
    /\ \E new_reading \in NewReadings :
         /\ new_reading # None
         /\ AlreadyExists(existing_data[1], new_reading[1])
         /\ printed' = Append(printed, <<"Reading already exists", new_reading[1].date_display>>)
    /\ ucalls' = ucalls + 1
    /\ UNCHANGED existing_data
    /\ UNCHANGED udOther

UdNext ==
    \/ UpdateDataNoReading
    \/ UpdateDataAppend
    \/ UpdateDataSkip

-----------------------------------------------------------------------------
(* update_river_data.main and generate_hutsonville_forecast.main           *)
(* Two scripts started independently (cron) on data/river_data.json.  Each *)
(* loads the whole file, changes its own keys in memory and writes the     *)
(* whole file back.  open(path, 'w') truncates the file and json.dump      *)
(* fills it afterwards, so a save is two steps.  generate_forecast_points  *)
(* is the Fc actions above, run between GmGenerate and the step after it.  *)
(* forecast_method, written together with forecast, is left out.           *)

NUM_HOURS == 120     \* generate_forecast_points(..., num_hours=120)

\* contents of a file: not there, not parsable as JSON (just truncated, or
\* two writers' bytes mixed), or a JSON document
FileAbsent == [kind |-> "absent"]
FileUnparsable == [kind |-> "unparsable"]
FileJson(doc) == [kind |-> "json", data |-> doc]

\* load_existing_data when the file does not exist (lines 64-76); a key
\* that is not in the document is None
DefaultData ==
    [last_updated |-> None, readings |-> <<>>,
     forecast |-> None, forecast_generated |-> None]

\* a forecast written by an earlier run of the generator
OldForecast == <<AnchorPoint([wall |-> 0, tz |-> Some(0)], 9000)>>

\* river_data.json before the two scripts start
RiverFiles ==
    {FileAbsent,
     FileJson(DefaultData),
     FileJson([DefaultData EXCEPT !.readings = <<Reading(1, 0, 10000)>>,
                                  !.last_updated = Some(0)]),
     FileJson([DefaultData EXCEPT !.readings = <<Reading(1, 0, 10000)>>,
                                  !.last_updated = Some(0),
                                  !.forecast = Some(OldForecast),
                                  !.forecast_generated = Some(0)])}

\* noaa_forecasts.json: missing, complete, with a gauge that could not be
\* fetched, with a stage of 0, with a timestamp missing, and with a
\* timestamp without UTC offset
Gauges(te, rv) == [gauges |-> [id \in GaugeIds |-> IF id = "TERI3" THEN te ELSE rv]]

NoaaFiles ==
    LET ts == Some(GoodTimestamp(10, "Z"))
        good == Some(Entry(Some(11500), Some(12000), ts))
    IN  {FileAbsent,
         FileJson(Gauges(Some(Entry(Some(11000), Some(14000), ts)), good)),
         FileJson(Gauges(Some(Entry(Some(11000), Some(14000), ts)), None)),
         FileJson(Gauges(Some(Entry(Some(11000), Some(14000), ts)),
                         Some(Entry(Some(0), Some(12000), ts)))),
         FileJson(Gauges(Some(Entry(Some(11000), Some(14000), None)), good)),
         FileJson(Gauges(Some(Entry(Some(11000), Some(14000),
                                    Some(GoodTimestamp(10, "")))), good))}

RfIdle ==
    /\ river_file = FileAbsent
    /\ noaa_file = FileAbsent
    /\ upc = "idle"
    /\ ur_new_reading = None
    /\ ur_existing_data = None
    /\ ur_exit = None
    /\ gpc = "idle"
    /\ gm_noaa_data = None
    /\ gm_river_data = None
    /\ gm_exit = None

RfInit ==
    /\ river_file \in RiverFiles
    /\ noaa_file \in NoaaFiles
    /\ upc = "start"
    /\ ur_new_reading = None
    /\ ur_existing_data = None
    /\ ur_exit = None
    /\ gpc = "start"
    /\ gm_noaa_data = None
    /\ gm_river_data = None
    /\ gm_exit = None

\* json.load of a file that is there: the document, or JSONDecodeError
Parsable(file) == file.kind = "json"

\* what the file holds after json.dump(doc) into a file this process opened
\* with 'w': the document; if another process wrote the file after this
\* one truncated it, the bytes of the two may be mixed
Dumped(file, doc) ==
    IF file = FileUnparsable THEN {FileJson(doc)}
    ELSE {FileJson(doc), FileUnparsable}

\* ---- update_river_data.main ----

\* lines 154-158: read_latest_river_stage returned None
UrReadFails ==
    /\ upc = "start"
    /\ \E new_reading \in NewReadings : new_reading = None
    /\ upc' = "exited"
    /\ ur_exit' = Some(1)
    /\ UNCHANGED <<ur_new_reading, ur_existing_data, river_file, noaa_file, gmVars>>
    /\ UNCHANGED rfOther

\* lines 154-156: the latest row of the CSV file
UrRead ==
    /\ upc = "start"
    /\ \E new_reading \in NewReadings :
         /\ new_reading # None
         /\ ur_new_reading' = new_reading
    /\ upc' = "load"
    /\ UNCHANGED <<ur_existing_data, ur_exit, river_file, noaa_file, gmVars>>
    /\ UNCHANGED rfOther

\* lines 161-163 with load_existing_data (lines 57-76)
UrLoad ==
    /\ upc = "load"
    /\ river_file # FileUnparsable
    /\ ur_existing_data' =
          Some(IF river_file = FileAbsent THEN DefaultData ELSE river_file.data)
    /\ upc' = "update"
    /\ UNCHANGED <<ur_new_reading, ur_exit, river_file, noaa_file, gmVars>>
    /\ UNCHANGED rfOther

\* lines 165-167 with load_existing_data (lines 77-79): json.load raised
UrLoadFails ==
    /\ upc = "load"
    /\ river_file = FileUnparsable
    /\ upc' = "exited"
    /\ ur_exit' = Some(1)
    /\ UNCHANGED <<ur_new_reading, ur_existing_data, river_file, noaa_file, gmVars>>
    /\ UNCHANGED rfOther

\* lines 170-171: update_data(existing_data, new_reading)
UrUpdate ==
    /\ upc = "update"
    /\ ur_existing_data' =
          IF AlreadyExists(ur_existing_data[1], ur_new_reading[1])
          THEN ur_existing_data
          ELSE Some(WithReading(ur_existing_data[1], ur_new_reading[1], 1))
    /\ upc' = "save"
    /\ UNCHANGED <<ur_new_reading, ur_exit, river_file, noaa_file, gmVars>>
    /\ UNCHANGED rfOther

\* save_data, line 104: open(data_file_path, 'w')
UrSaveOpen ==
    /\ upc = "save"
    /\ river_file' = FileUnparsable
    /\ upc' = "dump"
    /\ UNCHANGED <<ur_new_reading, ur_existing_data, ur_exit, noaa_file, gmVars>>
    /\ UNCHANGED rfOther

\* save_data, lines 105-107: json.dump and close
UrSaveDump ==
    /\ upc = "dump"
    /\ river_file' \in Dumped(river_file, ur_existing_data[1])
    /\ upc' = "push"
    /\ UNCHANGED <<ur_new_reading, ur_existing_data, ur_exit, noaa_file, gmVars>>
    /\ UNCHANGED rfOther

\* lines 175-177 with save_data (lines 108-110): the directory or the file
\* could not be opened
UrSaveFails ==
    /\ upc = "save"
    /\ upc' = "exited"
    /\ ur_exit' = Some(1)
    /\ UNCHANGED <<ur_new_reading, ur_existing_data, river_file, noaa_file, gmVars>>
    /\ UNCHANGED rfOther

\* lines 180-190: git_commit_and_push returned True or False
UrPush ==
    /\ upc = "push"
    /\ \E pushed \in BOOLEAN : ur_exit' = Some(IF pushed THEN 0 ELSE 1)
    /\ upc' = "exited"
    /\ UNCHANGED <<ur_new_reading, ur_existing_data, river_file, noaa_file, gmVars>>
    /\ UNCHANGED rfOther

\* ---- generate_hutsonville_forecast.main ----

\* datetime.fromisoformat of a timestamp of the reading log
FromIsoFormat(ts) == [wall |-> ts.iso, tz |-> ts.offset]

\* lines 205-206
MakeAware(dt) == IF Aware(dt) THEN dt ELSE [wall |-> dt.wall, tz |-> Some(0)]

\* faulty variant: an empty forecast is saved like any other
ForecastFailedNever(forecast_points) == FALSE

\* line 216: not forecast_points
ForecastFailed(forecast_points) == forecast_points = <<>>

\* lines 180-183: the NOAA file is missing or not parsable
GmLoadNoaaFails ==
    /\ gpc = "start"
    /\ ~Parsable(noaa_file)
    /\ gpc' = "exited"
    /\ gm_exit' = Some(1)
    /\ UNCHANGED <<gm_noaa_data, gm_river_data, river_file, noaa_file, urVars>>
    /\ UNCHANGED rfOther

\* lines 180-185
GmLoadNoaa ==
    /\ gpc = "start"
    /\ Parsable(noaa_file)
    /\ gm_noaa_data' = Some(noaa_file.data)
    /\ gpc' = "river"
    /\ UNCHANGED <<gm_river_data, gm_exit, river_file, noaa_file, urVars>>
    /\ UNCHANGED rfOther

\* lines 189-192: the river data file is missing or not parsable
GmLoadRiverFails ==
    /\ gpc = "river"
    /\ ~Parsable(river_file)
    /\ gpc' = "exited"
    /\ gm_exit' = Some(1)
    /\ UNCHANGED <<gm_noaa_data, gm_river_data, river_file, noaa_file, urVars>>
    /\ UNCHANGED rfOther

\* lines 189-195
GmLoadRiver ==
    /\ gpc = "river"
    /\ Parsable(river_file)
    /\ gm_river_data' = Some(river_file.data)
    /\ gpc' = "latest"
    /\ UNCHANGED <<gm_noaa_data, gm_exit, river_file, noaa_file, urVars>>
    /\ UNCHANGED rfOther

\* lines 198-201: no reading in the log
GmNoReadings ==
    /\ gpc = "latest"
    /\ gm_river_data[1].readings = <<>>
    /\ gpc' = "exited"
    /\ gm_exit' = Some(1)
    /\ UNCHANGED <<gm_noaa_data, gm_river_data, river_file, noaa_file, urVars>>
    /\ UNCHANGED rfOther

\* lines 198-214: the call of generate_forecast_points from the last
\* reading of the log
GmGenerate ==
    /\ gpc = "latest"
    /\ gm_river_data[1].readings # <<>>
    /\ fpc = "idle"
    /\ LET latest_reading ==
              gm_river_data[1].readings[Len(gm_river_data[1].readings)]
       IN  /\ noaa_data' = gm_noaa_data[1]
           /\ current_time' = MakeAware(FromIsoFormat(latest_reading.timestamp))
           /\ current_hutsonville_stage' = latest_reading.riverstage
    /\ num_hours' = NUM_HOURS
    /\ fpc' = "start"
    /\ gpc' = "generating"
    /\ UNCHANGED <<hutsonville_peak_time, peak_stage, hours, forecasts,
                   forecast_stage, fresult, fraised, fprior>>
    /\ UNCHANGED <<gm_noaa_data, gm_river_data, gm_exit, river_file, noaa_file, urVars>>
    /\ UNCHANGED gmCallOther

\* line 214: an exception left generate_forecast_points; main does not
\* catch it and the interpreter exits with status 1
GmGenerateRaised ==
    /\ gpc = "generating"
    /\ fpc = "raised"
    /\ gpc' = "exited"
    /\ gm_exit' = Some(1)
    /\ UNCHANGED <<gm_noaa_data, gm_river_data, river_file, noaa_file, urVars>>
    /\ UNCHANGED rfOther

\* lines 216-218
GmForecastFailed ==
    /\ gpc = "generating"
    /\ fpc = "done"
    /\ ForecastFailed(fresult[1])
    /\ gpc' = "exited"
    /\ gm_exit' = Some(1)
    /\ UNCHANGED <<gm_noaa_data, gm_river_data, river_file, noaa_file, urVars>>
    /\ UNCHANGED rfOther

\* lines 216-230: the forecast is put into the loaded document
GmSetForecast ==
    /\ gpc = "generating"
    /\ fpc = "done"
    /\ ~ForecastFailed(fresult[1])
    /\ gm_river_data' = Some([gm_river_data[1] EXCEPT
                                 !.forecast = Some(fresult[1]),
                                 !.forecast_generated = Some(1)])
    /\ gpc' = "save"
    /\ UNCHANGED <<gm_noaa_data, gm_exit, river_file, noaa_file, urVars>>
    /\ UNCHANGED rfOther

\* save_json_file, line 43: open(filepath, 'w')
GmSaveOpen ==
    /\ gpc = "save"
    /\ river_file' = FileUnparsable
    /\ gpc' = "dump"
    /\ UNCHANGED <<gm_noaa_data, gm_river_data, gm_exit, noaa_file, urVars>>
    /\ UNCHANGED rfOther

\* save_json_file, lines 44-45, and lines 234-243
GmSaveDump ==
    /\ gpc = "dump"
    /\ river_file' \in Dumped(river_file, gm_river_data[1])
    /\ gpc' = "exited"
    /\ gm_exit' = Some(0)
    /\ UNCHANGED <<gm_noaa_data, gm_river_data, noaa_file, urVars>>
    /\ UNCHANGED rfOther

\* lines 234-238 with save_json_file (lines 46-48): the file could not be
\* opened
GmSaveFails ==
    /\ gpc = "save"
    /\ gpc' = "exited"
    /\ gm_exit' = Some(1)
    /\ UNCHANGED <<gm_noaa_data, gm_river_data, river_file, noaa_file, urVars>>
    /\ UNCHANGED rfOther

RfNext ==
    \/ UrReadFails
    \/ UrRead
    \/ UrLoad
    \/ UrLoadFails
    \/ UrUpdate
    \/ UrSaveOpen
    \/ UrSaveDump
    \/ UrSaveFails
    \/ UrPush
    \/ GmLoadNoaaFails
    \/ GmLoadNoaa
    \/ GmLoadRiverFails
    \/ GmLoadRiver
    \/ GmNoReadings
    \/ GmGenerate
    \/ FcGaugeMissing
    \/ FcStageMissing
    \/ FcStagesChecked
    \/ FcParseFails
    \/ FcBegin
    \/ FcCompareFails
    \/ FcStep
    \/ FcReturn
    \/ GmGenerateRaised
    \/ GmForecastFailed
    \/ GmSetForecast
    \/ GmSaveOpen
    \/ GmSaveDump
    \/ GmSaveFails

-----------------------------------------------------------------------------
(* 02_correlation_analysis.main                                            *)
(* One run of the analysis script on a combined table.  The calls of       *)
(* calculate_cross_correlation and create_lagged_dataset are the Xc and Lg *)
(* actions above, run on the table of this run.  The fitted model is kept  *)
(* as LinearRegressionFit gives it; r2, rmse and the per-regime metrics    *)
(* are those of fit_linear_model and analyze_model_performance_by_stage    *)
(* above and are not carried here: no branch of main or of generate_report *)
(* that can end the run depends on their values.  Discharges are in units  *)
(* of 1000 cfs.  stats.normaltest (lines 436 and 631) needs 8 residuals;  *)
(* every table here leaves more.                                           *)

MAX_LAG_DAYS == 30       \* max_lag_days=30 (line 732)
BeyondRegimes == 200     \* a discharge at the upper bound of the last regime

\* the series s with every value raised by b
Raised(s, b) == [t \in DOMAIN s |-> s[t] + b]

\* combined_daily_discharge.csv: one row per day, the downstream record the
\* upstream one some days later, in the regimes or beyond them
AmInputs ==
    {[index |-> DaysSeq,
      TERI3 |-> UpSeries(k, h, g),
      RVTI3 |-> Raised(Shifted(UpSeries(k, h, g), s), b)] :
        k \in {"tri", "pulse", "alt"}, h \in {0, MaxHead}, g \in BOOLEAN,
        s \in 0..MaxShift, b \in {0, BeyondRegimes}}

AmIdle ==
    /\ apc = "idle"
    /\ am_df = None
    /\ am_model = None
    /\ am_perf_df = None
    /\ am_files = {}
    /\ am_report = None
    /\ am_raised = None

AmInit ==
    /\ apc = "start"
    /\ am_df \in {Some(t) : t \in AmInputs}
    /\ am_model = None
    /\ am_perf_df = None
    /\ am_files = {}
    /\ am_report = None
    /\ am_raised = None

\* lines 729-733: the call of calculate_cross_correlation
AmCrossCorrelation ==
    /\ apc = "start"
    /\ xpc = "idle"
    /\ upstream' = am_df[1].TERI3
    /\ downstream' = am_df[1].RVTI3
    /\ max_lag_days' = MAX_LAG_DAYS
    /\ xpc' = "start"
    /\ apc' = "correlating"
    /\ UNCHANGED <<combined, upstream_norm, downstream_norm, lag, lags,
                   correlations, sliced, xresult>>
    /\ UNCHANGED <<am_df, am_model, am_perf_df, am_files, am_report, am_raised>>
    /\ UNCHANGED <<lgVars, amBase>>

optimal_lag == xresult[1].optimal_lag

\* faulty variant: `if not optimal_lag`
LagUnavailableOrZero(ol) == ol = None \/ ol = Some(0)

\* line 735: optimal_lag is None
LagUnavailable(ol) == ol = None

\* lines 735-737: no lag, main returns
AmNoLag ==
    /\ apc = "correlating"
    /\ xpc = "done"
    /\ LagUnavailable(optimal_lag)
    /\ apc' = "returned"
    /\ UNCHANGED <<am_df, am_model, am_perf_df, am_files, am_report, am_raised>>
    /\ UNCHANGED amOther

\* lines 735-740: the call of create_lagged_dataset(df, optimal_lag)
AmCreateLagged ==
    /\ apc = "correlating"
    /\ xpc = "done"
    /\ ~LagUnavailable(optimal_lag)
    /\ lpc = "idle"
    /\ df' = am_df[1]
    /\ lag_days' = optimal_lag[1]
    /\ lpc' = "start"
    /\ apc' = "lagging"
    /\ UNCHANGED <<lagged, lresult>>
    /\ UNCHANGED <<am_df, am_model, am_perf_df, am_files, am_report, am_raised>>
    /\ UNCHANGED <<xcVars, amBase>>

\* the rows of the lagged dataset as numbers
LaggedRows(rows) ==
    [i \in 1..Len(rows) |-> [TERI3_lagged |-> rows[i].TERI3_lagged[1],
                             RVTI3_current |-> rows[i].RVTI3_current[1]]]

\* lines 747-750: X, y and fit_linear_model; LinearRegression().fit raises
\* ValueError on an empty dataset
AmFit ==
    /\ apc = "lagging"
    /\ lpc = "done"
    /\ LET rows == LaggedRows(lresult[1])
       IN  IF Len(rows) = 0
           THEN /\ am_raised' = Some("ValueError")
                /\ apc' = "raised"
                /\ UNCHANGED am_model
           ELSE /\ am_model' = Some(LinearRegressionFit(TeriColumn(rows),
                                                        RvtiColumn(rows)))
                /\ apc' = "fitted"
                /\ UNCHANGED am_raised
    /\ UNCHANGED <<am_df, am_perf_df, am_files, am_report>>
    /\ UNCHANGED amOther

\* analyze_model_performance_by_stage (lines 487-512): the regimes of the
\* table and their sample counts
RegimeTable(rows) ==
    LET kept == SelectSeq(FLOW_REGIMES,
                          LAMBDA r : ~TooFew(Len(RegimeData(rows, r))))
    IN  [k \in 1..Len(kept) |->
            [regime |-> kept[k].regime,
             n_samples |-> Len(RegimeData(rows, kept[k]))]]

\* line 753
AmRegimes ==
    /\ apc = "fitted"
    /\ am_perf_df' = Some(RegimeTable(LaggedRows(lresult[1])))
    /\ apc' = "analyzed"
    /\ UNCHANGED <<am_df, am_model, am_files, am_report, am_raised>>
    /\ UNCHANGED amOther

\* lines 760-771: the four figures
AmPlots ==
    /\ apc = "analyzed"
    /\ am_files' = am_files \cup
          {"time_series_comparison.png", "cross_correlation.png",
           "scatter_by_regime.png", "regression_analysis.png"}
    /\ apc' = "plotted"
    /\ UNCHANGED <<am_df, am_model, am_perf_df, am_report, am_raised>>
    /\ UNCHANGED amOther

\* lines 772-789: the two CSV files
AmSaveResults ==
    /\ apc = "plotted"
    /\ am_files' = am_files \cup {"model_results.csv", "performance_by_regime.csv"}
    /\ apc' = "saved"
    /\ UNCHANGED <<am_df, am_model, am_perf_df, am_report, am_raised>>
    /\ UNCHANGED amOther

\* the sections of analysis_report.txt in the order generate_report writes
\* them
ReportSections ==
    <<"1. DATA SUMMARY", "2. CORRELATION ANALYSIS RESULTS",
      "3. PRELIMINARY LINEAR REGRESSION MODEL", "4. PERFORMANCE BY FLOW REGIME",
      "5. RECOMMENDATIONS FOR IMPROVEMENT", "6. CONCLUSIONS", "END OF REPORT">>

\* where generate_report stops: 90 / optimal_lag at line 596 divides by
\* zero in section 2, perf_df['r2'] at line 646 is a KeyError in section 4
\* on a table without rows (and so without columns); `written` counts the
\* sections finished before
ReportFault(ol, table) ==
    IF ol = 0
    THEN Some([error |-> "ZeroDivisionError", written |-> 1])
    ELSE IF table = <<>>
    THEN Some([error |-> "KeyError", written |-> 3])
    ELSE None

\* lines 796-797 and generate_report: an exception leaves the report
\* unfinished, and main with it
AmReportFaults ==
    /\ apc = "saved"
    /\ LET fault == ReportFault(optimal_lag[1], am_perf_df[1])
       IN  /\ fault # None
           /\ am_report' = Some(SubSeq(ReportSections, 1, fault[1].written))
           /\ am_raised' = Some(fault[1].error)
    /\ am_files' = am_files \cup {"analysis_report.txt"}
    /\ apc' = "raised"
    /\ UNCHANGED <<am_df, am_model, am_perf_df>>
    /\ UNCHANGED amOther

\* lines 796-810 and generate_report to its end
AmReportComplete ==
    /\ apc = "saved"
    /\ ReportFault(optimal_lag[1], am_perf_df[1]) = None
    /\ am_report' = Some(ReportSections)
    /\ am_files' = am_files \cup {"analysis_report.txt"}
    /\ apc' = "done"
    /\ UNCHANGED <<am_df, am_model, am_perf_df, am_raised>>
    /\ UNCHANGED amOther

AmNext ==
    \/ AmCrossCorrelation
    \/ XcInsufficient
    \/ XcAlign
    \/ XcLagStep
    \/ XcFinish
    \/ AmNoLag
    \/ AmCreateLagged
    \/ LgBuild
    \/ LgDropna
    \/ AmFit
    \/ AmRegimes
    \/ AmPlots
    \/ AmSaveResults
    \/ AmReportFaults
    \/ AmReportComplete

-----------------------------------------------------------------------------
(* fetch_gauge_data                                                        *)
(* One top-level call fetch_gauge_data(gauge_id), as fetch_all_gauges      *)
(* makes it (line 305), with the recursive calls it makes on itself.       *)
(* fg_requests is the sequence of requests.get calls made so far, each     *)
(* with what came of it.                                                   *)

MAX_RETRIES == 3

\* status codes raise_for_status turns into HTTPError
HttpStatuses == {404, 429, 500, 503}

FgIdle ==
    /\ fg_gauge_id = ""
    /\ retry_count = 0
    /\ fgpc = "idle"
    /\ fg_requests = <<>>
    /\ fg_result = None

FgInit ==
    /\ fg_gauge_id \in GaugeIds
    /\ retry_count = 0
    /\ fgpc = "call"
    /\ fg_requests = <<>>
    /\ fg_result = None

\* faulty variant: the last attempt is retried as well
CanRetryOnceMore(rc) == rc <= MAX_RETRIES - 1

\* retry_count < MAX_RETRIES - 1
CanRetry(rc) == rc < MAX_RETRIES - 1

\* `return fetch_gauge_data(gauge_id, retry_count + 1)` after the sleep
FgRetry ==
    /\ retry_count' = retry_count + 1
    /\ UNCHANGED <<fgpc, fg_result>>

\* `return None`
FgGiveUp ==
    /\ fg_result' = None
    /\ fgpc' = "done"
    /\ UNCHANGED retry_count

\* lines 73-78: the request succeeds and its JSON body is returned
FgSuccess ==
    /\ fgpc = "call"
    /\ fg_requests' = Append(fg_requests, [kind |-> "ok", status |-> 200])
    /\ fg_result' = Some([gauge |-> fg_gauge_id])
    /\ fgpc' = "done"
    /\ UNCHANGED <<fg_gauge_id, retry_count>>
    /\ UNCHANGED fgOther

\* lines 80-86: requests.exceptions.Timeout
FgTimeout ==
    /\ fgpc = "call"
    /\ fg_requests' = Append(fg_requests, [kind |-> "timeout", status |-> 0])
    /\ IF CanRetry(retry_count) THEN FgRetry ELSE FgGiveUp
    /\ UNCHANGED fg_gauge_id
    /\ UNCHANGED fgOther

\* lines 88-95: raise_for_status raised HTTPError
FgHttpError ==
    /\ fgpc = "call"
    /\ \E status \in HttpStatuses :
         /\ fg_requests' = Append(fg_requests, [kind |-> "http", status |-> status])
         /\ IF CanRetry(retry_count) /\ status >= 500 THEN FgRetry ELSE FgGiveUp
    /\ UNCHANGED fg_gauge_id
    /\ UNCHANGED fgOther

\* lines 97-103: another RequestException (ConnectionError, ...)
FgRequestError ==
    /\ fgpc = "call"
    /\ fg_requests' = Append(fg_requests, [kind |-> "connection", status |-> 0])
    /\ IF CanRetry(retry_count) THEN FgRetry ELSE FgGiveUp
    /\ UNCHANGED fg_gauge_id
    /\ UNCHANGED fgOther

\* response.json() fails.  Depending on the version of requests the error
\* is a plain json.JSONDecodeError (lines 105-107) or one that is also a
\* RequestException and is caught by the earlier clause (lines 97-103)
FgInvalidJson ==
    /\ fgpc = "call"
    /\ fg_requests' = Append(fg_requests, [kind |-> "invalid json", status |-> 200])
    /\ \E isRequestException \in BOOLEAN :
         IF isRequestException /\ CanRetry(retry_count) THEN FgRetry ELSE FgGiveUp
    /\ UNCHANGED fg_gauge_id
    /\ UNCHANGED fgOther

\* lines 109-111: any other exception
FgUnexpected ==
    /\ fgpc = "call"
    /\ fg_requests' = Append(fg_requests, [kind |-> "unexpected", status |-> 0])
    /\ FgGiveUp
    /\ UNCHANGED fg_gauge_id
    /\ UNCHANGED fgOther

FgNext ==
    \/ FgSuccess
    \/ FgTimeout
    \/ FgHttpError
    \/ FgRequestError
    \/ FgInvalidJson
    \/ FgUnexpected

-----------------------------------------------------------------------------
(* run_analysis.main                                                       *)
(* Pipeline runs, one after another.  Between two runs the script files    *)
(* may appear or disappear; rn_events lists what the current run started   *)
(* and what came of it.                                                    *)

SCRIPTS == <<"01_download_data.py", "02_correlation_analysis.py">>

\* exit statuses of a script that make subprocess.run(check=True) raise
FailureCodes == {1, 2}

RnIdle ==
    /\ rnpc = "idle"
    /\ rn_exists = <<>>
    /\ rn_run = 0
    /\ rn_i = 0
    /\ success_count = 0
    /\ failed_scripts = <<>>
    /\ rn_events = <<>>
    /\ rn_exit = None
    /\ rn_exits = <<>>

\* lines 70-72: a run begins
RnInit ==
    /\ rnpc = "loop"
    /\ rn_exists \in [1..Len(SCRIPTS) -> BOOLEAN]
    /\ rn_run = 1
    /\ rn_i = 1
    /\ success_count = 0
    /\ failed_scripts = <<>>
    /\ rn_events = <<>>
    /\ rn_exit = None
    /\ rn_exits = <<>>

RnFrame == UNCHANGED <<rn_exists, rn_run, rn_exit, rn_exits>>

\* lines 74-80: the script file is not there
RnScriptMissing ==
    /\ rnpc = "loop"
    /\ rn_i <= Len(SCRIPTS)
    /\ ~rn_exists[rn_i]
    /\ failed_scripts' = Append(failed_scripts, SCRIPTS[rn_i])
    /\ rn_i' = rn_i + 1
    /\ UNCHANGED <<rnpc, success_count, rn_events>>
    /\ RnFrame
    /\ UNCHANGED rnOther

\* line 82 and run_script lines 40-46: the script is started
RnScriptStarts ==
    /\ rnpc = "loop"
    /\ rn_i <= Len(SCRIPTS)
    /\ rn_exists[rn_i]
    /\ rn_events' = Append(rn_events, [event |-> "started", script |-> SCRIPTS[rn_i],
                                       returncode |-> 0])
    /\ rnpc' = "running"
    /\ UNCHANGED <<rn_i, success_count, failed_scripts>>
    /\ RnFrame
    /\ UNCHANGED rnOther

\* run_script lines 48-50 and lines 84-85: the script exits with status 0
RnScriptSucceeds ==
    /\ rnpc = "running"
    /\ rn_events' = Append(rn_events, [event |-> "ended", script |-> SCRIPTS[rn_i],
                                       returncode |-> 0])
    /\ success_count' = success_count + 1
    /\ rn_i' = rn_i + 1
    /\ rnpc' = "loop"
    /\ UNCHANGED failed_scripts
    /\ RnFrame
    /\ UNCHANGED rnOther

\* run_script lines 52-56 and lines 86-89: CalledProcessError, break
RnScriptFails ==
    /\ rnpc = "running"
    /\ \E rc \in FailureCodes :
         rn_events' = Append(rn_events, [event |-> "ended", script |-> SCRIPTS[rn_i],
                                         returncode |-> rc])
    /\ failed_scripts' = Append(failed_scripts, SCRIPTS[rn_i])
    /\ rnpc' = "summary"
    /\ UNCHANGED <<rn_i, success_count>>
    /\ RnFrame
    /\ UNCHANGED rnOther

\* line 74: the for loop is exhausted
RnLoopEnds ==
    /\ rnpc = "loop"
    /\ rn_i > Len(SCRIPTS)
    /\ rnpc' = "summary"
    /\ UNCHANGED <<rn_i, success_count, failed_scripts, rn_events>>
    /\ RnFrame
    /\ UNCHANGED rnOther

\* lines 99-110
ExitStatus(failed, count) == IF failed # <<>> THEN 1 ELSE 0

\* lines 91-110 and sys.exit(main())
RnReturn ==
    /\ rnpc = "summary"
    /\ rn_exit' = Some(ExitStatus(failed_scripts, success_count))
    /\ rnpc' = "exited"
    /\ UNCHANGED <<rn_exists, rn_run, rn_i, success_count, failed_scripts,
                   rn_events, rn_exits>>
    /\ UNCHANGED rnOther

\* the runner is started again, on the script files there are then
RnRunAgain ==
    /\ rnpc = "exited"
    /\ rn_run < MaxRuns
    /\ rn_exists' \in [1..Len(SCRIPTS) -> BOOLEAN]
    /\ rn_exits' = Append(rn_exits, rn_exit[1])
    /\ rn_run' = rn_run + 1
    /\ rn_i' = 1
    /\ success_count' = 0
    /\ failed_scripts' = <<>>
    /\ rn_events' = <<>>
    /\ rn_exit' = None
    /\ rnpc' = "loop"
    /\ UNCHANGED rnOther

RnNext ==
    \/ RnScriptMissing
    \/ RnScriptStarts
    \/ RnScriptSucceeds
    \/ RnScriptFails
    \/ RnLoopEnds
    \/ RnReturn
    \/ RnRunAgain

-----------------------------------------------------------------------------
(* Specifications, one per component.                                      *)

\* no script is running
MainsIdle == RfIdle /\ AmIdle /\ FgIdle /\ RnIdle

OthersIdle == FitIdle /\ RgIdle /\ UdIdle /\ MainsIdle

InitXc == XcInit /\ LgIdle /\ FcIdle /\ OthersIdle

SpecXc == InitXc /\ [][XcNext]_vars

InitLg == LgInit /\ XcIdle /\ FcIdle /\ OthersIdle

SpecLg == InitLg /\ [][LgNext]_vars

InitFc == FcInit /\ XcIdle /\ LgIdle /\ OthersIdle

SpecFc == InitFc /\ [][FcNext]_vars

InitFit == FitInit /\ XcIdle /\ LgIdle /\ FcIdle /\ RgIdle /\ UdIdle /\ MainsIdle

SpecFit == InitFit /\ [][FitNext]_vars

InitRg == RgInit /\ XcIdle /\ LgIdle /\ FcIdle /\ FitIdle /\ UdIdle /\ MainsIdle

SpecRg == InitRg /\ [][RgNext]_vars

InitUd == UdInit /\ XcIdle /\ LgIdle /\ FcIdle /\ FitIdle /\ RgIdle /\ MainsIdle

SpecUd == InitUd /\ [][UdNext]_vars

InitRf == RfInit /\ XcIdle /\ LgIdle /\ FcIdle /\ FitIdle /\ RgIdle /\ UdIdle /\ AmIdle /\ FgIdle /\ RnIdle

SpecRf == InitRf /\ [][RfNext]_vars

InitAm == AmInit /\ XcIdle /\ LgIdle /\ FcIdle /\ FitIdle /\ RgIdle /\ UdIdle /\ RfIdle /\ FgIdle /\ RnIdle

SpecAm == InitAm /\ [][AmNext]_vars

InitFg == FgInit /\ XcIdle /\ LgIdle /\ FcIdle /\ FitIdle /\ RgIdle /\ UdIdle /\ RfIdle /\ AmIdle /\ RnIdle

SpecFg == InitFg /\ [][FgNext]_vars

\* requests.get returns or raises within REQUEST_TIMEOUT and the sleep
\* before a retry ends, so a call that can take a step takes one
SpecFgFair == SpecFg /\ WF_vars(FgNext)

InitRn == RnInit /\ XcIdle /\ LgIdle /\ FcIdle /\ FitIdle /\ RgIdle /\ UdIdle /\ RfIdle /\ AmIdle /\ FgIdle

SpecRn == InitRn /\ [][RnNext]_vars

-----------------------------------------------------------------------------
(* Properties of calculate_cross_correlation (checked under SpecXc).       *)

XcReturned == xpc = "done"
XcAvailable == xpc = "done" /\ xresult[1].optimal_lag # None

\* the number of timestamps that carry both an upstream and a downstream value
PairedCount == Cardinality(DOMAIN upstream \cap DOMAIN downstream)

\* C1: whenever fewer than 100 timestamps carry both values, the call
\* returns None for lags, correlations, optimal lag and max correlation,
\* whatever the series and max_lag_days are.
C1_InsufficientIsUnavailable ==
    (XcReturned /\ PairedCount < 100) => xresult = Some(NoResult)

C1_Witness ==
    XcReturned /\ PairedCount = 99 /\ xresult = Some(NoResult)

\* two correlation values are the same float (NaN taken as the same as NaN)
SameValue(a, b) == (a.nan /\ b.nan) \/ FEq(a, b)

\* C2: in a returned result the correlation at the optimal lag is not
\* exceeded by that of any tested lag, no smaller lag has the same
\* correlation, and max_correlation is the correlation at the optimal lag.
C2_OptimalLagIsFirstArgmax ==
    XcAvailable =>
        LET cs == xresult[1].correlations[1]
            ol == xresult[1].optimal_lag[1]
            mc == xresult[1].max_correlation[1]
        IN  /\ \A l \in 0..max_lag_days : ~FLess(cs[ol + 1], cs[l + 1])
            /\ \A l \in 0..(ol - 1) : ~SameValue(cs[l + 1], cs[ol + 1])
            /\ SameValue(mc, cs[ol + 1])

\* C3: at every lag L >= 1, each upstream sample correlated is dated
\* exactly L days before the downstream sample it is paired with.
C3_PairsAreLagDaysApart ==
    (sliced # None /\ sliced[1].lag >= 1) =>
        LET u == sliced[1].dates[1]
            d == sliced[1].dates[2]
        IN  \A i \in 1..Len(u) : d[i] - u[i] = sliced[1].lag

\* C4: a returned result lists the lags 0..max_lag_days once each in
\* ascending order with one correlation per lag, and every lag at or beyond
\* the aligned sample count has correlation exactly 0; a call that passes
\* the sample threshold always runs to its return.
C4_EveryLagReportedZeroBeyondSamples ==
    /\ XcAvailable =>
        LET ls == xresult[1].lags[1]
            cs == xresult[1].correlations[1]
        IN  /\ ls = [i \in 1..(max_lag_days + 1) |-> i - 1]
            /\ Len(cs) = max_lag_days + 1
            /\ \A l \in 0..max_lag_days :
                   l >= Len(combined) => (~cs[l + 1].nan /\ cs[l + 1].sgn = 0)
    /\ (XcReturned /\ PairedCount >= 100) => XcAvailable

C4_Witness ==
    /\ XcAvailable
    /\ max_lag_days > Len(combined)
    /\ xresult[1].correlations[1][Len(combined) + 1] = Zero

\* downstream sample i + k of the aligned arrays is upstream sample i
ShiftedBy(k) ==
    /\ upstream_norm # None
    /\ LET uv == upstream_norm.vals
           dv == downstream_norm.vals
       IN  \A i \in 1..(Len(uv) - k) : dv[i + k] = uv[i]

HasNaN(cs) == \E i \in 1..Len(cs) : cs[i].nan

-----------------------------------------------------------------------------
(* Properties of create_lagged_dataset (checked under SpecLg).             *)

\* C6: the returned frame has exactly one row for each day t at which the
\* downstream value of day t and the upstream value of day t - lag_days
\* are both present, holding those two values, and no other row.
C6_LaggedRowsPairDaysLagApart ==
    lpc = "done" =>
        LET rows == lresult[1]
            days == {t \in 1..LgDates :
                        t \in DOMAIN df.RVTI3 /\ (t - lag_days) \in DOMAIN df.TERI3}
        IN  /\ {rows[i].date : i \in 1..Len(rows)} = days
            /\ Len(rows) = Cardinality(days)
            /\ \A i \in 1..Len(rows) :
                   /\ rows[i].TERI3_lagged = Some(df.TERI3[rows[i].date - lag_days])
                   /\ rows[i].RVTI3_current = Some(df.RVTI3[rows[i].date])

-----------------------------------------------------------------------------
(* Properties of generate_forecast_points *)

FcEnded == fpc \in {"done", "raised"}
FcReturnedEmpty == fpc = "done" /\ fresult = Some(<<>>)

\* a gauge value that is absent or null, or lacks a stage
LacksStage(g) ==
    \/ g = None
    \/ g[1].observed_stage = None
    \/ g[1].forecast_stage = None

IncompleteGauges == LacksStage(teri3) \/ LacksStage(rvti3)

\* C7: whenever either gauge entry is absent or null, or either gauge lacks
\* its observed stage or its forecast stage, the function returns the empty
\* list: it builds no point and raises nothing.
C7_IncompleteReturnsEmpty ==
    (fpc # "idle" /\ IncompleteGauges) =>
        /\ forecasts = <<>>
        /\ fraised = None
        /\ FcEnded => FcReturnedEmpty

\* an entry with every value but the forecast stage made the function return []
C7_Witness ==
    /\ FcReturnedEmpty
    /\ teri3 # None /\ rvti3 # None
    /\ Truthy(teri3_current) /\ Truthy(rvti3_current) /\ Truthy(teri3_forecast)
    /\ rvti3_forecast = None
    /\ ParseTimestamp(rvti3_forecast_time_str).ok

BadTimestamp ==
    \/ ~ParseTimestamp(teri3_forecast_time_str).ok
    \/ ~ParseTimestamp(rvti3_forecast_time_str).ok

\* C8: with all four stages present and a forecast timestamp that is missing
\* or cannot be parsed, the function ends by returning the empty list and
\* raises nothing.
C8_BadTimestampReturnsEmpty ==
    (FcEnded /\ ~IncompleteGauges /\ BadTimestamp) =>
        (FcReturnedEmpty /\ fraised = None)

FcReturnedPoints == fpc = "done" /\ fresult # Some(<<>>)

\* C9: the first point of a non-empty result carries the wall clock reading
\* of current_time (without offset) and the current stage as it was passed
\* in, unrounded.
C9_FirstPointIsAnchor ==
    FcReturnedPoints =>
        /\ fresult[1][1].timestamp = [iso |-> current_time.wall, offset |-> None]
        /\ fresult[1][1].riverstage = current_hutsonville_stage

\* a result with steps whose current stage is not a multiple of 0.01 ft
C9_Witness ==
    /\ FcReturnedPoints
    /\ Len(fresult[1]) >= 3
    /\ current_hutsonville_stage % 10 # 0
    /\ fresult[1][1].riverstage = current_hutsonville_stage

\* indices (in forecasts) of the steps that precede the peak time
RisingSteps ==
    {j + 1 : j \in {k \in 1..Len(forecast_stage) : forecast_stage[k].branch = "rising"}}

\* distance of the reported stage of point i from the peak
Distance(i) == Abs(fresult[1][i].riverstage - peak_stage[1])

\* distance from the peak of forecast_stage before rounding, times its
\* denominator; point 1 is the anchor
RawDistance(i, den) ==
    IF i = 1 THEN Abs(current_hutsonville_stage - peak_stage[1]) * den
    ELSE Abs(forecast_stage[i - 1].num - peak_stage[1] * den)

\* C10 as stated: every point before the peak time is strictly closer to
\* the peak stage than the point before it, the anchor included.
C10_StrictlyCloserToPeak ==
    FcReturnedPoints =>
        \A i \in RisingSteps : Distance(i) < Distance(i - 1)

\* C10 amended: before rounding, every step before the peak time is
\* strictly closer to the peak than the one before it (the anchor included)
\* when the current stage differs from the peak, and equal to it otherwise;
\* the reported stage is never farther from the peak than the previous
\* reported stage, the anchor being taken rounded to 0.01 ft as the steps are.
C10_CloserBeforeRounding ==
    FcReturnedPoints =>
        \A i \in RisingSteps :
            LET den == forecast_stage[i - 1].den
            IN  /\ IF current_hutsonville_stage # peak_stage[1]
                   THEN RawDistance(i, den) < RawDistance(i - 1, den)
                   ELSE RawDistance(i, den) = 0
                /\ IF i = 2
                   THEN \A a \in Round2(current_hutsonville_stage, 1) :
                            Distance(i) <= Abs(a - peak_stage[1])
                   ELSE Distance(i) <= Distance(i - 1)

\* three steps before the peak time from a current stage below the peak,
\* two of them reported with the same rounded stage
C10_Witness ==
    /\ FcReturnedPoints
    /\ {2, 3, 4} \subseteq RisingSteps
    /\ current_hutsonville_stage < peak_stage[1]
    /\ fresult[1][3].riverstage = fresult[1][4].riverstage

\* indices (in forecast_stage) of the steps at or after the peak time
RecessionSteps ==
    {k \in 1..Len(forecast_stage) : forecast_stage[k].branch = "recession"}

\* hours from the peak time to step k
HoursAfterPeak(k) ==
    HoursBetween(AddHours(current_time, forecast_stage[k].hours),
                 hutsonville_peak_time[1])

\* the recession factor of step k, times 1e6
FactorMicro(k) == RecessionMicro[HoursAfterPeak(k) + 1]

\* the reported stage of step k (point k + 1 of the result)
Reported(k) == fresult[1][k + 1].riverstage

C12_ScenarioPeakIs1211 ==
    (peak_stage # None /\ teri3_forecast = Some(14000) /\ rvti3_forecast = Some(12000))
        => peak_stage = Some(12110)

\* C12 amended: the peak stage is ((1 - w) * u + w * d) * 0.98 with w = 0.85,
\* rounded to two decimals (a multiple of 0.01 ft within 0.005 ft of it);
\* for u = 14.0 and d = 12.0 it is 12.05.
C12_PeakIsScaledBlend ==
    peak_stage # None =>
        /\ peak_stage[1] % 10 = 0
        /\ Abs(10000 * peak_stage[1]
               - (15 * teri3_forecast[1] + 85 * rvti3_forecast[1]) * 98) <= 50000
        /\ (teri3_forecast = Some(14000) /\ rvti3_forecast = Some(12000))
             => peak_stage = Some(12050)

\* the scenario's forecast stages gave the peak 12.05
C12_Witness ==
    /\ peak_stage = Some(12050)
    /\ teri3_forecast = Some(14000)
    /\ rvti3_forecast = Some(12000)

\* point i of the result is reported from a value that round() may take
\* either way
IsTie(i) ==
    /\ i >= 2
    /\ Cardinality(Round2Within(forecast_stage[i - 1].num, forecast_stage[i - 1].den,
                                forecast_stage[i - 1].err)) = 2

\* C13: the peak time is the TERI3 forecast time plus 18 hours, and a call
\* on a snapshot that differs only in a parsable RVTI3 forecast timestamp
\* returns the same sequence as the call before it.
C13_PeakTimeFromUpstreamOnly ==
    /\ hutsonville_peak_time # None =>
         LET t == ParseTimestamp(teri3_forecast_time_str).value
         IN  hutsonville_peak_time[1] = [wall |-> t.wall + 18, tz |-> t.tz]
    /\ fprior # None => fpc # "raised"
    /\ (fpc = "done" /\ fprior # None) =>
         /\ fresult # None
         /\ Len(fresult[1]) = Len(fprior[1].result)
         /\ peak_stage = fprior[1].peak_stage
            \/ Cardinality(EstimateHutsonvilleStage(teri3_forecast[1],
                                                    rvti3_forecast[1])) = 2
         /\ peak_stage = fprior[1].peak_stage =>
              /\ forecast_stage = fprior[1].forecast_stage
              /\ \A i \in 1..Len(fresult[1]) :
                    \/ fresult[1][i] = fprior[1].result[i]
                    \/ /\ IsTie(i)
                       /\ fresult[1][i].timestamp = fprior[1].result[i].timestamp

\* a second call with another RVTI3 timestamp returned the same five points
C13_Witness ==
    /\ fpc = "done"
    /\ fprior # None
    /\ fresult = Some(fprior[1].result)
    /\ Len(fresult[1]) = 5
    /\ rvti3_forecast_time_str # GoodZ

\* C14: a non-empty result for num_hours = H has 1 + floor(H / 6) points,
\* point i at current_time plus 6 * (i - 1) hours, so the timestamps
\* increase by exactly 6 hours from point to point.
C14_OnePointPerSixHours ==
    FcReturnedPoints =>
        /\ Len(fresult[1]) = 1 + (num_hours \div 6)
        /\ \A i \in 1..Len(fresult[1]) :
              fresult[1][i].timestamp =
                  [iso |-> current_time.wall + 6 * (i - 1), offset |-> None]

\* a horizon that is a multiple of 6 hours: the point at the horizon is there
C14_Witness ==
    /\ FcReturnedPoints
    /\ num_hours = 12
    /\ Len(fresult[1]) = 3
    /\ fresult[1][3].timestamp.iso = current_time.wall + 12

-----------------------------------------------------------------------------
(* Properties of analyze_model_performance_by_stage (checked under SpecRg) *)

\* number of rows of the lagged dataset with lo <= response < hi
RowsIn(lo, hi) ==
    Cardinality({i \in 1..Len(lagged_df) :
                    lo <= lagged_df[i].RVTI3_current /\ lagged_df[i].RVTI3_current < hi})

RegimeReported(name) ==
    \E k \in 1..Len(perf_df[1]) : perf_df[1][k].regime = name

\* C15: the returned table has a row for a regime if and only if at least
\* 10 rows of the lagged dataset have their response inside the regime's
\* interval; no row of the table stands for fewer than 10 samples.
C15_ReportedIffTenRows ==
    rpc = "done" =>
        /\ \A j \in 1..Len(FLOW_REGIMES) :
              RegimeReported(FLOW_REGIMES[j].regime)
                 <=> RowsIn(FLOW_REGIMES[j].min_stage, FLOW_REGIMES[j].max_stage) >= 10
        /\ \A k \in 1..Len(perf_df[1]) : perf_df[1][k].n_samples >= 10

\* a regime with 9 rows is absent and one with 10 rows is present
C15_Witness ==
    /\ rpc = "done"
    /\ \E j, m \in 1..Len(FLOW_REGIMES) :
          /\ RowsIn(FLOW_REGIMES[j].min_stage, FLOW_REGIMES[j].max_stage) = 9
          /\ ~RegimeReported(FLOW_REGIMES[j].regime)
          /\ RowsIn(FLOW_REGIMES[m].min_stage, FLOW_REGIMES[m].max_stage) = 10
          /\ RegimeReported(FLOW_REGIMES[m].regime)

\* C16: a row is counted in a regime exactly when min <= response < max:
\* every reported count is the number of such rows, so a response on a
\* shared bound is counted in the upper regime only, the counts together
\* never exceed the rows with 0 <= response < 200000, and rows outside
\* every regime do not keep the function from returning.
C16_HalfOpenRegimes ==
    /\ rpc = "done" =>
         /\ perf_df # None
         /\ \A k \in 1..Len(perf_df[1]) :
               perf_df[1][k].n_samples =
                   RowsIn(perf_df[1][k].stage_range[1], perf_df[1][k].stage_range[2])
         /\ SumTo([k \in 1..Len(perf_df[1]) |-> perf_df[1][k].n_samples],
                  Len(perf_df[1])) <= RowsIn(0, 200)
    /\ \A i \in 1..Len(lagged_df) :
          Cardinality({j \in 1..Len(FLOW_REGIMES) :
                         /\ FLOW_REGIMES[j].min_stage <= lagged_df[i].RVTI3_current
                         /\ lagged_df[i].RVTI3_current < FLOW_REGIMES[j].max_stage}) <= 1

\* low_flow and normal_flow are both reported for a dataset with a response
\* on their shared bound, a response below 0 and one at the last upper bound
C16_Witness ==
    /\ rpc = "done"
    /\ RegimeReported("low_flow")
    /\ RegimeReported("normal_flow")
    /\ \E i \in 1..Len(lagged_df) : lagged_df[i].RVTI3_current = 5
    /\ \E i \in 1..Len(lagged_df) : lagged_df[i].RVTI3_current < 0
    /\ \E i \in 1..Len(lagged_df) : lagged_df[i].RVTI3_current = 200

\* every response lies inside some regime interval
AllInsideRegimes ==
    \A i \in 1..Len(lagged_df) :
        \E j \in 1..Len(FLOW_REGIMES) :
            /\ FLOW_REGIMES[j].min_stage <= lagged_df[i].RVTI3_current
            /\ lagged_df[i].RVTI3_current < FLOW_REGIMES[j].max_stage

\* no regime holds between 1 and 9 rows
NoSmallRegime ==
    \A j \in 1..Len(FLOW_REGIMES) :
        LET c == RowsIn(FLOW_REGIMES[j].min_stage, FLOW_REGIMES[j].max_stage)
        IN  c = 0 \/ c >= 10

\* the table reproduces the fit: the counts sum to the row count, and the
\* sums of squared errors (rmse squared times n_samples) sum to the sum of
\* the squared residuals y - model.predict(X) over all rows
TableReproducesFit ==
    LET t == perf_df[1]
        m == rg_model[1]
    IN  /\ SumTo([k \in 1..Len(t) |-> t[k].n_samples], Len(t)) = Len(lagged_df)
        /\ \A k \in 1..Len(t) :
              t[k].rmse.squared.den = t[k].n_samples * m.den * m.den
        /\ SumTo([k \in 1..Len(t) |-> t[k].rmse.squared.num], Len(t))
             = SquaredErrors(m, TeriColumn(lagged_df), RvtiColumn(lagged_df))

\* C17 as stated: when every response lies inside some regime interval the
\* table reproduces the fit.
C17_RegimesReproduceGlobalFit ==
    (rpc = "done" /\ AllInsideRegimes) => TableReproducesFit

\* C17 amended: when every response lies inside some regime interval and
\* every regime that holds a row holds at least 10, the table reproduces
\* the fit.
C17_FullRegimesReproduceGlobalFit ==
    (rpc = "done" /\ AllInsideRegimes /\ NoSmallRegime) => TableReproducesFit

\* three regimes reported, every row in one of them, errors not all zero
C17_Witness ==
    /\ rpc = "done"
    /\ AllInsideRegimes
    /\ NoSmallRegime
    /\ Len(perf_df[1]) = 3
    /\ TableReproducesFit
    /\ SquaredErrors(rg_model[1], TeriColumn(lagged_df), RvtiColumn(lagged_df)) > 0

-----------------------------------------------------------------------------
(* Properties of fit_linear_model (checked under SpecFit) *)

\* C18: with fewer than 2 rows the call ends in an error and returns no
\* fitted model.
C18_FewerThanTwoRowsIsError ==
    (tpc \in {"done", "raised"} /\ Len(fit_X) < 2) =>
        (tpc = "raised" /\ fit_result = None)

-----------------------------------------------------------------------------
(* Properties of update_data (checked under SpecUd) *)

\* C19: no two entries of the log have the same timestamp string.
C19_NoDuplicateTimestamps ==
    existing_data # None =>
        \A i, j \in 1..Len(existing_data[1].readings) :
            i # j => existing_data[1].readings[i].timestamp
                       # existing_data[1].readings[j].timestamp

\* a reading with a known timestamp was offered and skipped
C19_Witness ==
    /\ existing_data # None
    /\ Len(existing_data[1].readings) >= 2
    /\ \E k \in 1..Len(printed) : printed[k][1] = "Reading already exists"

\* C20: every entry of the log is later than the entry before it.
C20_LogIsChronological ==
    existing_data # None =>
        \A i \in 1..(Len(existing_data[1].readings) - 1) :
            Instant(existing_data[1].readings[i].timestamp)
              < Instant(existing_data[1].readings[i + 1].timestamp)

\* C21: update_data is append-only. In every call the log before is a
\* prefix of the log after, at most one entry is added, a call that adds
\* no entry leaves last_updated as it was, and a call without a reading
\* (nothing printed) or with a known timestamp ("Reading already exists")
\* leaves readings and last_updated unchanged.
C21_AppendOnly ==
    [][existing_data # None =>
         /\ existing_data' # None
         /\ LET old == existing_data[1]
                new == existing_data'[1]
            IN  /\ Len(new.readings) \in {Len(old.readings), Len(old.readings) + 1}
                /\ SubSeq(new.readings, 1, Len(old.readings)) = old.readings
                /\ Len(new.readings) = Len(old.readings)
                      => new.last_updated = old.last_updated
                /\ (\/ printed' = printed
                    \/ printed'[Len(printed')][1] = "Reading already exists")
                      => new = old
                /\ new.last_updated # old.last_updated
                      => Len(new.readings) = Len(old.readings) + 1]_vars

\* one reading was appended by the first call, then one call had no reading
\* and one a known timestamp: last_updated is still that of the first call
C21_Witness ==
    /\ existing_data # None
    /\ ucalls = 3
    /\ Len(existing_data[1].readings) = 1
    /\ existing_data[1].last_updated = Some(1)
    /\ Len(printed) = 2
    /\ printed[2][1] = "Reading already exists"

-----------------------------------------------------------------------------
(* Properties of the two main functions on river_data.json (SpecRf) *)

\* C22: when generate_forecast_points has returned an empty sequence, the
\* next step of the generator's main ends it with status 1 and leaves the
\* file as it is; before its save the generator never changes the file
\* (every change of the file is then a step of the updater), and once it
\* has ended it stays ended, so the forecast, forecast_generated and the
\* readings in the file are not touched by a run whose generation failed.
C22_FailedGenerationLeavesFile ==
    [][/\ (gpc = "generating" /\ fpc = "done" /\ fresult = Some(<<>>) /\ gpc' # gpc)
            => (gpc' = "exited" /\ gm_exit' = Some(1) /\ river_file' = river_file)
       /\ (gpc \notin {"save", "dump"} /\ upc' = upc) => river_file' = river_file
       /\ gpc = "exited" => (gpc' = "exited" /\ gm_exit' = gm_exit)]_vars

\* generation failed on a file that holds an earlier forecast; the updater
\* did not run, and the file still holds that forecast and its reading
C22_Witness ==
    /\ gpc = "exited"
    /\ gm_exit = Some(1)
    /\ fpc = "done"
    /\ fresult = Some(<<>>)
    /\ upc = "start"
    /\ river_file = FileJson([DefaultData EXCEPT
                                 !.readings = <<Reading(1, 0, 10000)>>,
                                 !.last_updated = Some(0),
                                 !.forecast = Some(OldForecast),
                                 !.forecast_generated = Some(0)])

\* both scripts ran to the end with exit status 0
BothSucceeded ==
    /\ upc = "exited"
    /\ ur_exit = Some(0)
    /\ gpc = "exited"
    /\ gm_exit = Some(0)

\* C27: when the updater and the generator, run concurrently, have both
\* ended with status 0, the file holds every reading of the log the
\* updater saved and the forecast the generator saved.
C27_NoLostUpdate ==
    BothSucceeded =>
        /\ river_file.kind = "json"
        /\ \A k \in 1..Len(ur_existing_data[1].readings) :
              \E i \in 1..Len(river_file.data.readings) :
                  river_file.data.readings[i] = ur_existing_data[1].readings[k]
        /\ river_file.data.forecast = Some(fresult[1])

-----------------------------------------------------------------------------
(* Properties of 02_correlation_analysis.main (checked under SpecAm) *)

\* the run is over: main returned or an exception left it
AmEnded == apc \in {"returned", "done", "raised"}

\* the run went through to the end of main with a finished report
AmCompleted ==
    /\ apc = "done"
    /\ am_raised = None
    /\ am_model # None
    /\ {"model_results.csv", "performance_by_regime.csv", "analysis_report.txt"}
          \subseteq am_files
    /\ am_report = Some(ReportSections)

\* C23: a run whose regime table is empty (every regime has fewer than 10
\* rows) and whose lag is positive completes: model results and a finished
\* report are written.
C23_EmptyRegimeTableCompletes ==
    (AmEnded /\ am_perf_df = Some(<<>>) /\ optimal_lag[1] > 0) => AmCompleted

\* C24: while the lag estimate is unavailable no lagged dataset is built,
\* no model is fitted, no table, file or report is written, and the run
\* can only return; and the run returns at this point for no other reason.
C24_NoLagStopsRun ==
    /\ (apc \notin {"idle", "start"} /\ xpc = "done" /\ optimal_lag = None) =>
          /\ apc \in {"correlating", "returned"}
          /\ lpc = "idle"
          /\ lresult = None
          /\ am_model = None
          /\ am_perf_df = None
          /\ am_files = {}
          /\ am_report = None
    /\ apc = "returned" => (xpc = "done" /\ optimal_lag = None)

\* a run on a table with fewer than 100 paired records has returned
C24_Witness ==
    /\ apc = "returned"
    /\ xpc = "done"
    /\ optimal_lag = None
    /\ Len(combined) < MinPaired
    /\ am_files = {}

\* C30: a run whose optimal lag is 0 completes like any other.
C30_LagZeroCompletes ==
    (AmEnded /\ xpc = "done" /\ optimal_lag = Some(0)) => AmCompleted

-----------------------------------------------------------------------------
(* Properties of fetch_gauge_data (checked under SpecFgFair) *)

\* outcomes the claim names as retried: timeout, connection error, HTTP 5xx
Retryable(req) ==
    \/ req.kind \in {"timeout", "connection"}
    \/ req.kind = "http" /\ req.status >= 500

FgLast == fg_requests[Len(fg_requests)]

FgAttemptsBounded ==
    /\ Len(fg_requests) <= MAX_RETRIES
    \* the call is still running exactly while every request so far failed
    \* and was retried
    /\ fgpc = "call" => Len(fg_requests) = retry_count /\ retry_count < MAX_RETRIES
    /\ fgpc = "done" => Len(fg_requests) = retry_count + 1
    \* only the last request can be a success or an HTTP error below 500
    /\ \A i \in 1..Len(fg_requests) :
          (\/ fg_requests[i].kind = "ok"
           \/ fg_requests[i].kind = "http" /\ fg_requests[i].status < 500)
             => (i = Len(fg_requests) /\ fgpc = "done")
    /\ fgpc = "done" =>
          \* a success returns the data, every failure None
          /\ (FgLast.kind = "ok") <=> (fg_result # None)
          \* a retryable failure ends the call only as the third attempt
          /\ Retryable(FgLast) => Len(fg_requests) = MAX_RETRIES

\* C25: the call makes at most 3 requests: a success ends it with the data,
\* a timeout, connection error or HTTP 5xx is followed by another request
\* exactly while fewer than 3 were made, an HTTP error below 500 is never
\* followed by another request, every failed call returns None; and the
\* call ends.
C25_AtMostThreeAttempts ==
    /\ []FgAttemptsBounded
    /\ <>(fgpc = "done")

\* three requests were made: a timeout, a 503, a connection error; the
\* result is None
C25_Witness ==
    /\ fgpc = "done"
    /\ Len(fg_requests) = 3
    /\ fg_requests[1].kind = "timeout"
    /\ fg_requests[2] = [kind |-> "http", status |-> 503]
    /\ fg_requests[3].kind = "connection"
    /\ fg_result = None

-----------------------------------------------------------------------------
(* Properties of the pipeline runner (SpecRn)                               *)

\* the script was started in this run
Started(script) ==
    \E j \in DOMAIN rn_events :
        rn_events[j].event = "started" /\ rn_events[j].script = script

\* the script ran in this run and exited with status 0
Succeeded(script) ==
    \E j \in DOMAIN rn_events :
        rn_events[j] = [event |-> "ended", script |-> script, returncode |-> 0]

\* the runner exits with status 0 exactly when both scripts ran and succeeded
ExitZeroIffBothSucceeded ==
    rnpc = "exited" =>
        (rn_exit = Some(0) <=> \A i \in DOMAIN SCRIPTS : Succeeded(SCRIPTS[i]))

\* C26: 02_correlation_analysis.py is started only after 01_download_data.py
\* has run and exited with status 0 in the same pipeline run, and the runner
\* exits with status 0 exactly when both scripts ran and succeeded.
C26_DownloadBeforeAnalysis ==
    /\ \A j \in DOMAIN rn_events :
          (rn_events[j].event = "started" /\ rn_events[j].script = SCRIPTS[2]) =>
             \E k \in 1..(j - 1) :
                 rn_events[k] = [event |-> "ended", script |-> SCRIPTS[1],
                                 returncode |-> 0]
    /\ ExitZeroIffBothSucceeded

-----------------------------------------------------------------------------
(* Properties of generate_forecast_points on zero stages and in the rising *)
(* branch (SpecFc)                                                          *)

\* both gauges are there and each of the four stages is a number
AllStagesPresent ==
    /\ ~GaugeMissing(teri3, rvti3)
    /\ teri3_current # None
    /\ rvti3_current # None
    /\ teri3_forecast # None
    /\ rvti3_forecast # None

BothTimestampsParse ==
    /\ ParseTimestamp(teri3_forecast_time_str).ok
    /\ ParseTimestamp(rvti3_forecast_time_str).ok

\* C28: when all four stage values are present numbers, the value 0 included,
\* and both forecast timestamps parse, the sequence generate_forecast_points
\* returns is not empty.
C28_ZeroStageIsPresent ==
    (fpc = "done" /\ AllStagesPresent /\ BothTimestampsParse) =>
        fresult # Some(<<>>)

\* time_to_peak (line 146) in hours
TimeToPeak == HoursBetween(hutsonville_peak_time[1], current_time)

\* the step is interpolated with progress = time_elapsed / time_to_peak, a
\* fraction strictly between 0 and 1: the clamp is not taken
Interpolated(fs) ==
    /\ TimeToPeak > 0
    /\ 0 < fs.hours
    /\ fs.hours < TimeToPeak
    /\ fs.den = TimeToPeak
    /\ fs.num = current_hutsonville_stage * TimeToPeak
                  + (peak_stage[1] - current_hutsonville_stage) * fs.hours

\* num / den lies strictly between the stages a and b
StrictlyBetween(num, den, a, b) ==
    \/ a * den < num /\ num < b * den
    \/ b * den < num /\ num < a * den

\* every step is on the recession curve when the peak time is not after
\* current_time
PastPeakAllRecession ==
    \A k \in DOMAIN forecast_stage :
        TimeToPeak <= 0 =>
            /\ forecast_stage[k].branch = "recession"
            /\ forecast_stage[k].num = (peak_stage[1] \div 10) * FactorMicro(k)
            /\ forecast_stage[k].den = 100000

\* C29 as stated: in the rising branch the time to the peak is positive and
\* the interpolation fraction lies strictly between 0 and 1, so the clamp is
\* never taken and every stage before the peak lies strictly between the
\* current stage and the peak stage before rounding; when the peak time is
\* not after current_time every step is on the recession curve.
C29_RisingStrictlyBetween ==
    /\ \A k \in DOMAIN forecast_stage :
          forecast_stage[k].branch = "rising" =>
             /\ Interpolated(forecast_stage[k])
             /\ StrictlyBetween(forecast_stage[k].num, forecast_stage[k].den,
                                current_hutsonville_stage, peak_stage[1])
    /\ PastPeakAllRecession

\* C29 amended: as stated, except that the stage before the peak lies
\* strictly between the current stage and the peak stage only when the two
\* differ; when the current stage equals the peak stage every stage before
\* the peak equals both.
C29_RisingBetweenWhenDistinct ==
    /\ \A k \in DOMAIN forecast_stage :
          forecast_stage[k].branch = "rising" =>
             /\ Interpolated(forecast_stage[k])
             /\ IF current_hutsonville_stage # peak_stage[1]
                THEN StrictlyBetween(forecast_stage[k].num, forecast_stage[k].den,
                                     current_hutsonville_stage, peak_stage[1])
                ELSE forecast_stage[k].num
                        = current_hutsonville_stage * forecast_stage[k].den
    /\ PastPeakAllRecession

\* a forecast falling towards a peak below the current stage: two steps
\* before the peak time, then steps on the recession curve
C29_Witness ==
    /\ FcReturnedPoints
    /\ current_hutsonville_stage > peak_stage[1]
    /\ {1, 2} \subseteq DOMAIN forecast_stage \ RecessionSteps
    /\ RecessionSteps # {}

====
